---- MODULE Spec2Model ----
(***************************************************************************)
(* h2go: TCP tunnels carried over HTTP/2 requests.                         *)
(*                                                                         *)
(* Server side: ProxyServer (registry proxyMap, handlers /connect, /pull,  *)
(* /push, the auth pre-check) and proxyConn (closed flag, heart and close  *)
(* signals, the lifecycle goroutine Do).                                   *)
(* Client side: clientConnection (Read, Write, Close, alive, chunkPush).   *)
(*                                                                         *)
(* Time is counted in seconds.  The timers are sampled every d seconds     *)
(* (Tick(d)), with d a common divisor of the durations a specification     *)
(* deals with (timeout, signTTL, heartTTL, heartTTL/2); what happens       *)
(* between two samples is ordered by interleaving.  A goroutine that can   *)
(* run without waiting (the lifecycle goroutine between two selects, or    *)
(* between the return of Do and the delete) runs before the timers advance.*)
(*                                                                         *)
(* A handler is a function of the request, the wall clock it reads and the *)
(* server state: it yields the response and the next server state.         *)
(***************************************************************************)
EXTENDS Integers, Sequences, FiniteSets, TLC

\* ------------------------------------------------------------- constants
timeout  == 10
signTTL  == 10
heartTTL == 60

HeadError    == 500
HeadOK       == 200
HeadNotFound == 404

\* ---------------------------------------------------------------- bounds
\* ids the server mints (successful /connect calls)
MaxTunnels == 2
\* bytes a target sends / a request body carries
MaxBytes == 1
MaxWrites == 2
MaxCloses == 2
MaxClosers == 2
PollInterval == 20

Ids == 1 .. MaxTunnels
\* UUID header values: 0 is the empty header, the others are ids (minted or not)
UUIDs == 0 .. MaxTunnels

Min(a, b) == IF a < b THEN a ELSE b

\* ------------------------------------------------------------ authenticator
Digits == {"0", "1", "2", "3", "4", "5", "6", "7", "8", "9"}

DigitVal(c) ==
  CASE c = "0" -> 0 [] c = "1" -> 1 [] c = "2" -> 2 [] c = "3" -> 3 [] c = "4" -> 4
    [] c = "5" -> 5 [] c = "6" -> 6 [] c = "7" -> 7 [] c = "8" -> 8 [] c = "9" -> 9

DigitChar(d) ==
  CASE d = 0 -> "0" [] d = 1 -> "1" [] d = 2 -> "2" [] d = 3 -> "3" [] d = 4 -> "4"
    [] d = 5 -> "5" [] d = 6 -> "6" [] d = 7 -> "7" [] d = 8 -> "8" [] d = 9 -> "9"

RECURSIVE DecValue(_)
DecValue(s) == IF s = <<>> THEN 0
               ELSE 10 * DecValue(SubSeq(s, 1, Len(s) - 1)) + DigitVal(s[Len(s)])

\* strconv.ParseInt(s, 10, 0): an optional sign, then one or more decimal
\* digits; anything else is a syntax error.  (The strings of the model are
\* too short to leave the int64 range.)
ParseInt(s) ==
  IF s = <<>> THEN [ok |-> FALSE, val |-> 0]
  ELSE LET signed == s[1] \in {"+", "-"}
           digits == IF signed THEN Tail(s) ELSE s
       IN IF digits = <<>> \/ \E i \in 1 .. Len(digits) : digits[i] \notin Digits
          THEN [ok |-> FALSE, val |-> 0]
          ELSE [ok |-> TRUE,
                val |-> IF s[1] = "-" THEN 0 - DecValue(digits) ELSE DecValue(digits)]

RECURSIVE FormatNat(_)
FormatNat(n) == IF n < 10 THEN <<DigitChar(n)>>
                ELSE FormatNat(n \div 10) \o <<DigitChar(n % 10)>>

\* fmt.Sprintf("%d", n)
FormatInt(n) == IF n < 0 THEN <<"-">> \o FormatNat(0 - n) ELSE FormatNat(n)

\* HMAC-SHA1 in hex, as a function that is injective in (key, raw)
GenHMACSHA1(key, raw) == <<"hmac", key, raw>>

VerifyHMACSHA1_prefix(key, raw, sign) ==
  LET full == GenHMACSHA1(key, raw)
  IN Len(sign) \in 1 .. Len(full) /\ sign = SubSeq(full, 1, Len(sign))

VerifyHMACSHA1(key, raw, sign) == GenHMACSHA1(key, raw) = sign

\* HMACAuthenticator with its secret
Sign(secret, data) == GenHMACSHA1(secret, data)
Verify(secret, data, signature) == VerifyHMACSHA1(secret, data, signature)

\* the secret the server was started with
ServerSecret == "12345"

\* variants that differ from the code at one point
verify_strict(r, nw) ==
  IF r.timestamp = <<>> THEN "timestamp is empty"
  ELSE LET tm == ParseInt(r.timestamp)
       IN IF ~tm.ok THEN "timestamp invalid"
          ELSE IF nw - tm.val >= signTTL THEN "timestamp expire"
          ELSE IF VerifyHMACSHA1(ServerSecret, r.timestamp, r.sign) THEN ""
          ELSE "sign invalid"
before_open(r, nw) == ""

verify_twoSided(r, nw) ==
  IF r.timestamp = <<>> THEN "timestamp is empty"
  ELSE LET tm == ParseInt(r.timestamp)
       IN IF ~tm.ok THEN "timestamp invalid"
          ELSE IF nw - tm.val > signTTL \/ tm.val - nw > signTTL THEN "timestamp expire"
          ELSE IF VerifyHMACSHA1(ServerSecret, r.timestamp, r.sign) THEN ""
          ELSE "sign invalid"

verify_bound(r, nw) ==
  IF r.timestamp = <<>> THEN "timestamp is empty"
  ELSE LET tm == ParseInt(r.timestamp)
       IN IF ~tm.ok THEN "timestamp invalid"
          ELSE IF nw - tm.val > signTTL THEN "timestamp expire"
          ELSE IF VerifyHMACSHA1(ServerSecret,
                                 IF r.route = "/connect" THEN r.timestamp
                                 ELSE r.timestamp \o <<r.route>>, r.sign)
          THEN ""
          ELSE "sign invalid"

\* nil is "", an error is its message
verify(r, nw) ==
  IF r.timestamp = <<>> THEN "timestamp is empty"
  ELSE LET tm == ParseInt(r.timestamp)
       IN IF ~tm.ok THEN "timestamp invalid"
          ELSE IF nw - tm.val > signTTL THEN "timestamp expire"
          ELSE IF VerifyHMACSHA1(ServerSecret, r.timestamp, r.sign) THEN ""
          ELSE "sign invalid"

\* ------------------------------------------------------------------- state
VARIABLES
  proxyMap,   \* ProxyServer.proxyMap: the ids in the map (id i maps to conns[i])
  conns,      \* the proxyConn minted under each id, its target socket and its Do goroutine
  minted,     \* number of ids minted so far (uuid.New() yields a fresh id)
  pull,       \* per id: a streaming /pull handler is in its read loop
  push,       \* per id: a chunked data /push handler is in io.Copy, with the body bytes on the wire
  down,       \* per id: the bytes written to the streaming /pull response
  closedFor,  \* per id: seconds from the close of the tunnel to the delete of its id (-1: not closed)
  closedBy,   \* per id: what closed the tunnel first
  heartGap,   \* per id, while the tunnel is open: seconds since /connect or the last heart push that reached Heart()
  onTime,     \* per id: seconds the open tunnel has lived, without a break, with its
              \* last heart (or its /connect) at most heartTTL/2 old
  c,          \* the clientConnection under observation, its heartbeat task and what its calls returned
  reply       \* the response to the last request of the requester under observation

server == <<proxyMap, conns, minted, pull, push, down>>
observers == <<closedFor, closedBy, heartGap, onTime>>
client == <<c, reply>>
vars == <<server, observers, client>>

NilConn == [hasClosed |-> FALSE, remote |-> "none", peer |-> "none", life |-> "none",
            timer |-> 0, rx |-> <<>>, tx |-> <<>>, sent |-> 0]

\* newProxyConn over a freshly dialled socket
newProxyConn == [hasClosed |-> FALSE, remote |-> "open", peer |-> "open", life |-> "none",
                 timer |-> 0, rx |-> <<>>, tx |-> <<>>, sent |-> 0]

NoPush == [active |-> FALSE, wire |-> <<>>]

\* a response: status and body text; id is the tunnel id in the body of a
\* successful /connect, data the bytes of a /pull body
Response(status, body, id, data) == [status |-> status, body |-> body, id |-> id, data |-> data]

\* WriteNotFoundError(w, "404") in before
NotFound == Response(HeadNotFound, "404", 0, <<>>)
HTTPError_generic(message) == Response(HeadError, "error", 0, <<>>)

\* WriteHTTPError(w, message)
HTTPError(message) == Response(HeadError, message, 0, <<>>)
\* the handler writes a body or returns without WriteHeader: 200
HTTPOK(data) == Response(HeadOK, "", 0, data)
\* WriteHTTPOK(w, proxyID)
HTTPID(proxyID) == Response(HeadOK, "", proxyID, <<>>)

\* the server state a handler works on
State == [proxyMap |-> proxyMap, conns |-> conns, minted |-> minted, pull |-> pull,
          push |-> push, down |-> down]

\* what a handler does: its response and the server state it leaves
Out(response, st) == [resp |-> response, st |-> st]

\* ------------------------------------------------------------- proxyConn
\* variants that differ from the code at one point
DoReturn_leavesOpen(pc) == [pc EXCEPT !.life = "exited", !.timer = 0]
Heart_dropsSignal(pc) == pc
IsClosed_never(pc) == FALSE
Close_signalOnly(pc) ==
  IF pc.life = "select" THEN [pc EXCEPT !.life = "exited", !.remote = "closed", !.timer = 0]
  ELSE pc

Close_stored(pc) ==
  [pc EXCEPT !.hasClosed = TRUE,
             !.life = IF @ \in {"loop", "select"} THEN "exited" ELSE @,
             !.remote = IF pc.life \in {"loop", "select"} THEN "closed" ELSE @,
             !.timer = 0]

\* Do leaves its loop: the deferred pc.remote.Close() runs
DoReturn(pc) == [pc EXCEPT !.life = "exited", !.remote = "closed", !.timer = 0]

\* select { case pc.close <- struct{}{}: default: } after setting hasClosed:
\* the signal is taken only by a Do that waits in its select
Close(pc) ==
  LET flagged == [pc EXCEPT !.hasClosed = TRUE]
  IN IF flagged.life = "select" THEN DoReturn(flagged) ELSE flagged

\* select { case pc.heart <- struct{}{}: default: }: Do continues its loop
Heart(pc) == IF pc.life = "select" THEN [pc EXCEPT !.life = "loop"] ELSE pc

IsClosed(pc) == pc.hasClosed

\* --------------------------------------------------------------- the client
\* an error value: the format of fmt.Errorf or the text of errors.New, and
\* what the format was filled with
Err(text, status, body) == [text |-> text, status |-> status, body |-> body]
NoErr == Err("", 0, "")
StatusErr(resp) == Err("status code is %d, body is %s", resp.status, resp.body)
ErrClosedPipe == Err("io: read/write on closed pipe", 0, "")
\* strings.Contains(err.Error(), text), for a text that is a whole part of the message
Contains(err, text) == err # NoErr /\ (err.text = text \/ err.body = text)

\* what a call returned: n and err, and of the request the call made its
\* response status, and whether its id was in the registry
NoRet == [op |-> "", n |-> 0, err |-> NoErr, status |-> 0, known |-> FALSE]
Ret(op, n, err, status, known) ==
  [op |-> op, n |-> n, err |-> err, status |-> status, known |-> known]
NoReply == [status |-> 0, body |-> "", parsed |-> FALSE, age |-> 0, signed |-> FALSE,
            changed |-> FALSE]

\* newClientConnection, before Client.Connect has run
\* a task that calls Close: where it is in Close, its alreadyClosed, and
\* whether it has sent the quit push
Closers == 1 .. MaxClosers
NilTask == [at |-> "idle", alreadyClosed |-> FALSE, quit |-> FALSE]

NilClient ==
  [uuid |-> 0, interval |-> 0, stage |-> "new", source |-> "nil",
   dst |-> "nil", chunk |-> "none", flight |-> <<>>, closed |-> FALSE, close |-> "nil",
   pipe |-> <<>>,      \* the buffer of the Write in progress in streaming mode
   wstate |-> "idle",  \* a Write in streaming mode: idle, blocked on the pipe, or taken
   chunks |-> 0,       \* chunked /push requests started
   pushed |-> 0,       \* the status that ended the chunked /push request
   front |-> FALSE,    \* the tunnel is used by the two copies of the frontend
   fdown |-> FALSE,    \* the frontend's copy from the tunnel to the socket has finished
   fup |-> FALSE,      \* the frontend's copy from the socket to the tunnel has finished
   results |-> 0,      \* results sent to errChan
   alive |-> "none", timer |-> 0,
   ret |-> NoRet,      \* what the last call of Read, Write or Close returned
   got |-> <<>>,       \* the bytes Read has returned
   written |-> <<>>,   \* the bytes of the Write calls that succeed, in call order
   closes |-> 0,       \* calls of Close
   quits |-> 0,        \* quit pushes sent
   hearts |-> 0,       \* heart pushes sent
   beat |-> 0,         \* seconds since the last heart push was sent
   gap |-> 0,          \* seconds between the last two heart pushes
   owed |-> 0,         \* bytes of the target that had arrived at the server when Close was called
   wire |-> {},        \* route and UUID header of the requests sent
   bodies |-> 0,       \* /pull response bodies the client has received and not closed
   late |-> 0,         \* heart pushes started after Close had set the flag, up to 2
   closeMu |-> 0,      \* the task that holds closeMu, 0 if none
   shut |-> 0,         \* executions of close(c.close)
   task |-> [t \in 1 .. MaxClosers |-> NilTask]]

AlivePeriod_whole == heartTTL

\* case <-time.After(time.Second * heartTTL / 2) in alive
AlivePeriod == heartTTL \div 2

\* ---------------------------------------------------------------- requests
Req(route, h, u, typ, iv, dst, chunked, body) ==
  [route |-> route, timestamp |-> h.timestamp, sign |-> h.sign, UUID |-> u, TYP |-> typ,
   Interval |-> iv, dst |-> dst, chunked |-> chunked, body |-> body]

\* clientConnection.genSign at wall-clock time nw
genSign(nw, secret) ==
  [timestamp |-> FormatInt(nw), sign |-> GenHMACSHA1(secret, FormatInt(nw))]

NoHeaders == [timestamp |-> <<>>, sign |-> <<>>]

\* body bytes are numbered, so that order and gaps show
Bodies == {[k \in 1 .. n |-> k] : n \in 0 .. MaxBytes}

\* Interval header values: absent, "0", a positive number of nanoseconds, junk
Intervals == {<<>>, <<"0">>, <<"2", "0">>, <<"x">>}

ConnectReqs(H) ==
  {Req("/connect", h, 0, "", <<>>, dst, FALSE, <<>>) : h \in H, dst \in {"up", "down"}}
PullReqs(H) ==
  {Req("/pull", h, u, "", iv, "", FALSE, <<>>) : h \in H, u \in UUIDs, iv \in Intervals}
PushReqs(H) ==
  {Req("/push", h, u, typ, <<>>, "", FALSE, <<>>) :
     h \in H, u \in UUIDs, typ \in {"quit", "heart", "other"}}
  \cup {Req("/push", h, u, "data", <<>>, "", FALSE, b) : h \in H, u \in UUIDs, b \in Bodies}

\* ------------------------------------------------------------ ProxyServer
\* before: the error of verify; on an error the handler answers 404 "404" and returns
before(r, nw) == verify(r, nw)

\* /connect: dial, mint an id, insert, start the lifecycle goroutine, answer the id
handleConnect_noInsert(r, nw) ==
  LET err == before(r, nw)
      proxyID == minted + 1
  IN IF err # "" THEN Out(NotFound, State)
     ELSE IF r.dst # "up" THEN Out(HTTPError("connect"), State)
     ELSE Out(HTTPID(proxyID),
              [State EXCEPT !.minted = proxyID,
                            !.conns[proxyID] = [newProxyConn EXCEPT !.life = "loop"]])

handleConnect(r, nw) ==
  LET err == before(r, nw)
      proxyID == minted + 1
  IN IF err # "" THEN Out(NotFound, State)
     ELSE IF r.dst # "up" THEN Out(HTTPError("connect"), State)
     ELSE Out(HTTPID(proxyID),
              [State EXCEPT !.minted = proxyID,
                            !.conns[proxyID] = [newProxyConn EXCEPT !.life = "loop"],
                            !.proxyMap = @ \cup {proxyID}])

\* the Interval header of /pull: "" counts as "0", a parse error leaves t = 0
PullInterval(r) ==
  LET t == ParseInt(IF r.Interval = <<>> THEN <<"0">> ELSE r.Interval)
  IN IF t.ok THEN t.val ELSE 0

PollRead_closesOnTimeout(uuid) ==
  LET pc == conns[uuid]
  IN IF pc.remote = "open" /\ pc.rx # <<>>
     THEN Out(HTTPOK(pc.rx), [State EXCEPT !.conns[uuid].rx = <<>>])
     ELSE Out(HTTPOK(<<>>), [State EXCEPT !.conns[uuid] = Close(pc)])

\* /pull with Interval > 0: one read of the target under a read deadline
PollRead(uuid) ==
  LET pc == conns[uuid]
  IN IF pc.remote = "open" /\ pc.rx # <<>>
     THEN \* n > 0, no error
          Out(HTTPOK(pc.rx), [State EXCEPT !.conns[uuid].rx = <<>>])
     ELSE IF pc.remote = "open" /\ pc.peer = "open"
     THEN \* the deadline passes: a timeout, an empty 200
          Out(HTTPOK(<<>>), State)
     ELSE \* EOF, or a read of the socket Do has closed: pc.Close()
          Out(HTTPOK(<<>>), [State EXCEPT !.conns[uuid] = Close(pc)])

handlePull(r, nw) ==
  LET err == before(r, nw)
      uuid == r.UUID
  IN IF err # "" THEN Out(NotFound, State)
     ELSE IF uuid \notin proxyMap THEN Out(HTTPError("uuid don't exist"), State)
     ELSE IF IsClosed(conns[uuid]) THEN Out(HTTPError("remote conn is closed"), State)
     ELSE IF PullInterval(r) > 0 THEN PollRead(uuid)
     ELSE \* chunked response: the handler enters its read loop
          Out(HTTPOK(<<>>), [State EXCEPT !.pull[uuid] = TRUE])

\* io.Copy(pc.remote, r.Body) of a body that is all there; a write on the
\* socket Do has closed fails, and a target that has gone takes no bytes
CopyBody_front(uuid, body) ==
  LET pc == conns[uuid]
  IN IF body = <<>> THEN State
     ELSE IF pc.remote = "open"
     THEN [State EXCEPT !.conns[uuid].tx = IF pc.peer = "open" THEN body \o @ ELSE @]
     ELSE [State EXCEPT !.conns[uuid] = Close(pc)]

CopyBody(uuid, body) ==
  LET pc == conns[uuid]
  IN IF body = <<>> THEN State
     ELSE IF pc.remote = "open"
     THEN [State EXCEPT !.conns[uuid].tx = IF pc.peer = "open" THEN @ \o body ELSE @]
     ELSE [State EXCEPT !.conns[uuid] = Close(pc)]

handlePush_unchecked(r, nw) ==
  LET err == before(r, nw)
      uuid == r.UUID
  IN IF err # "" THEN Out(NotFound, State)
     ELSE IF uuid \notin proxyMap THEN Out(HTTPError("uuid don't exist"), State)
     ELSE IF r.TYP = "heart" THEN Out(HTTPOK(<<>>), [State EXCEPT !.conns[uuid] = Heart(@)])
     ELSE IF r.TYP = "quit" THEN Out(HTTPOK(<<>>), [State EXCEPT !.conns[uuid] = Close(@)])
     ELSE IF r.TYP = "data" THEN Out(HTTPOK(<<>>), CopyBody(uuid, r.body))
     ELSE Out(HTTPOK(<<>>), State)

handlePush_dataHeart(r, nw) ==
  LET err == before(r, nw)
      uuid == r.UUID
  IN IF err # "" THEN Out(NotFound, State)
     ELSE IF uuid \notin proxyMap THEN Out(HTTPError("uuid don't exist"), State)
     ELSE IF IsClosed(conns[uuid]) THEN Out(HTTPError("remote conn is closed"), State)
     ELSE IF r.TYP = "heart" THEN Out(HTTPOK(<<>>), [State EXCEPT !.conns[uuid] = Heart(@)])
     ELSE IF r.TYP = "quit" THEN Out(HTTPOK(<<>>), [State EXCEPT !.conns[uuid] = Close(@)])
     ELSE IF r.TYP = "data"
     THEN IF r.chunked
          THEN Out(HTTPOK(<<>>), [State EXCEPT !.push[uuid] =
                                    [active |-> TRUE, wire |-> r.body]])
          ELSE Out(HTTPOK(<<>>), [CopyBody(uuid, r.body) EXCEPT !.conns[uuid] = Heart(@)])
     ELSE Out(HTTPOK(<<>>), State)

handlePush(r, nw) ==
  LET err == before(r, nw)
      uuid == r.UUID
  IN IF err # "" THEN Out(NotFound, State)
     ELSE IF uuid \notin proxyMap THEN Out(HTTPError("uuid don't exist"), State)
     ELSE IF IsClosed(conns[uuid]) THEN Out(HTTPError("remote conn is closed"), State)
     ELSE IF r.TYP = "heart" THEN Out(HTTPOK(<<>>), [State EXCEPT !.conns[uuid] = Heart(@)])
     ELSE IF r.TYP = "quit" THEN Out(HTTPOK(<<>>), [State EXCEPT !.conns[uuid] = Close(@)])
     ELSE IF r.TYP = "data"
     THEN IF r.chunked
          THEN \* the body is a stream: io.Copy runs until it ends
               Out(HTTPOK(<<>>), [State EXCEPT !.push[uuid] =
                                    [active |-> TRUE, wire |-> r.body]])
          ELSE Out(HTTPOK(<<>>), CopyBody(uuid, r.body))
     ELSE Out(HTTPOK(<<>>), State)

\* ------------------------------------------------------------- observers
Closes(pc) == pc.hasClosed \/ pc.life \in {"exited", "done"}

NoteClosed(newConns, cause) ==
  /\ onTime' = [i \in Ids |-> IF Closes(newConns[i]) THEN 0 ELSE onTime[i]]
  /\ closedFor' = [i \in Ids |-> IF closedFor[i] < 0 /\ Closes(newConns[i])
                                 THEN 0 ELSE closedFor[i]]
  /\ closedBy' = [i \in Ids |-> IF closedFor[i] < 0 /\ Closes(newConns[i])
                                THEN cause ELSE closedBy[i]]

\* the request is a heart push for id i that reached Heart() while Do was running
IsHeart(r, o, i) ==
  /\ r.route = "/push" /\ r.TYP = "heart" /\ r.UUID = i /\ o.resp.status = HeadOK
  /\ closedFor[i] < 0

NoteHeart(r, o) ==
  heartGap' = [i \in Ids |-> IF IsHeart(r, o, i) THEN 0 ELSE heartGap[i]]

\* the cause of a close made by the handler of r
Cause(r) == IF r.route = "/push" /\ r.TYP = "quit" THEN "quit" ELSE "peer"

\* the server takes the step of a handler
Serve(r, o) ==
  /\ proxyMap' = o.st.proxyMap
  /\ conns' = o.st.conns
  /\ minted' = o.st.minted
  /\ pull' = o.st.pull
  /\ push' = o.st.push
  /\ down' = o.st.down
  /\ NoteClosed(o.st.conns, Cause(r))
  /\ NoteHeart(r, o)

\* what the clients of the model keep to: one streaming /pull and one chunked
\* /push per tunnel at a time, and at most MaxBytes body bytes per tunnel
Conforms(r) ==
  /\ (r.route = "/pull" /\ r.UUID \in Ids /\ PullInterval(r) <= 0) => ~pull[r.UUID]
  /\ (r.route = "/push" /\ r.UUID \in Ids /\ r.TYP = "data") =>
        /\ Len(conns[r.UUID].tx) + Len(r.body) <= MaxBytes
        /\ r.chunked => ~push[r.UUID].active

\* requests of requesters that are not under observation
Connect(r, nw) ==
  /\ minted < MaxTunnels
  /\ LET o == handleConnect(r, nw) IN Serve(r, o)
  /\ UNCHANGED client
Pull(r, nw) ==
  /\ Conforms(r)
  /\ LET o == handlePull(r, nw) IN Serve(r, o)
  /\ UNCHANGED client
Push(r, nw) ==
  /\ Conforms(r)
  /\ LET o == handlePush(r, nw) IN Serve(r, o)
  /\ UNCHANGED client

\* one turn of the read loop of a streaming /pull; on a read error the handler
\* returns and its deferred pc.Close() runs
PullLoop(i) ==
  /\ pull[i]
  /\ LET pc == conns[i]
     IN IF pc.remote = "open" /\ pc.rx # <<>>
        THEN /\ down' = [down EXCEPT ![i] = @ \o pc.rx]
             /\ conns' = [conns EXCEPT ![i].rx = <<>>]
             /\ UNCHANGED <<pull, closedFor, closedBy, onTime>>
        ELSE /\ pc.remote = "closed" \/ pc.peer = "closed"
             /\ pull' = [pull EXCEPT ![i] = FALSE]
             /\ conns' = [conns EXCEPT ![i] = Close(pc)]
             /\ NoteClosed(conns', "peer")
             /\ UNCHANGED down
  /\ UNCHANGED <<proxyMap, minted, push, heartGap, client>>

\* io.Copy(pc.remote, r.Body) of a chunked /push: the bytes that have arrived
\* are written to the target; on a write error the handler closes the tunnel
\* and returns
PushCopy(i) ==
  /\ push[i].active
  /\ push[i].wire # <<>>
  /\ LET pc == conns[i]
     IN IF pc.remote = "open"
        THEN /\ conns' = [conns EXCEPT ![i].tx = IF pc.peer = "open"
                                                 THEN @ \o push[i].wire ELSE @]
             /\ push' = [push EXCEPT ![i].wire = <<>>]
             /\ UNCHANGED <<closedFor, closedBy, onTime>>
        ELSE /\ conns' = [conns EXCEPT ![i] = Close(pc)]
             /\ push' = [push EXCEPT ![i] = NoPush]
             /\ NoteClosed(conns', "peer")
  /\ UNCHANGED <<proxyMap, minted, pull, down, heartGap, client>>

\* ------------------------------------------------- the lifecycle goroutine
\* Do enters its select: time.After(heartTTL) is armed anew
DoSelect(i) ==
  /\ conns[i].life = "loop"
  /\ conns' = [conns EXCEPT ![i].life = "select", ![i].timer = 0]
  /\ UNCHANGED <<proxyMap, minted, pull, push, down, observers, client>>

\* case <-time.After(time.Second * heartTTL): return
DoTimeout(i) ==
  /\ conns[i].life = "select"
  /\ conns[i].timer >= heartTTL
  /\ conns' = [conns EXCEPT ![i] = DoReturn(@)]
  /\ NoteClosed(conns', "timeout")
  /\ UNCHANGED <<proxyMap, minted, pull, push, down, heartGap, client>>

DoDelete_keepsId(i) ==
  /\ conns[i].life = "exited"
  /\ conns' = [conns EXCEPT ![i].life = "done"]
  /\ UNCHANGED <<proxyMap, minted, pull, push, down, observers, client>>

\* after pc.Do(): delete(s.proxyMap, proxyID)
DoDelete(i) ==
  /\ conns[i].life = "exited"
  /\ proxyMap' = proxyMap \ {i}
  /\ conns' = [conns EXCEPT ![i].life = "done"]
  /\ UNCHANGED <<minted, pull, push, down, observers, client>>

\* ------------------------------------------------------------- the target
TargetSend(i) ==
  /\ conns[i].peer = "open"
  /\ conns[i].sent < MaxBytes
  /\ conns' = [conns EXCEPT ![i].sent = @ + 1,
                            ![i].rx = IF conns[i].remote = "open"
                                      THEN @ \o <<conns[i].sent + 1>> ELSE @]
  /\ UNCHANGED <<proxyMap, minted, pull, push, down, observers, client>>

TargetClose(i) ==
  /\ conns[i].peer = "open"
  /\ conns' = [conns EXCEPT ![i].peer = "closed"]
  /\ UNCHANGED <<proxyMap, minted, pull, push, down, observers, client>>

\* the bytes the target has sent that arrived at the server's connection to it:
\* those read by the client, on their way down, or not yet read by the server
Arrived(i) == IF i \in Ids THEN Len(c.got) + Len(down[i]) + Len(conns[i].rx) ELSE 0

\* ------------------------------------------------------------------- time
Cap(n, top, d) == IF n > top THEN top + d ELSE n

\* d seconds pass
Tick(d) ==
  /\ \A i \in Ids : conns[i].life \notin {"loop", "exited"}
  /\ \A i \in Ids : conns[i].life = "select" => conns[i].timer < heartTTL
  /\ c.alive = "wait" => c.close = "open" /\ c.timer < AlivePeriod
  /\ c.alive = "push" => c.timer < timeout
  /\ conns' = [i \in Ids |-> IF conns[i].life = "select"
                             THEN [conns[i] EXCEPT !.timer = @ + d] ELSE conns[i]]
  /\ closedFor' = [i \in Ids |-> IF closedFor[i] < 0 \/ conns[i].life = "done" THEN closedFor[i]
                                 ELSE Cap(closedFor[i] + d, heartTTL, d)]
  /\ heartGap' = [i \in Ids |-> IF conns[i].life = "none" \/ closedFor[i] >= 0 THEN heartGap[i]
                                ELSE Cap(heartGap[i] + d, heartTTL, d)]
  /\ onTime' = [i \in Ids |-> IF conns[i].life = "none" \/ closedFor[i] >= 0 THEN onTime[i]
                               ELSE IF heartGap'[i] > heartTTL \div 2 THEN 0
                               ELSE Min(onTime[i] + d, 2 * heartTTL)]
  /\ c' = IF c.alive \in {"wait", "push"}
          THEN [c EXCEPT !.timer = @ + d, !.beat = Cap(@ + d, heartTTL, d)]
          ELSE c
  /\ UNCHANGED <<proxyMap, minted, pull, push, down, closedBy, reply>>

Init ==
  /\ proxyMap = {}
  /\ conns = [i \in Ids |-> NilConn]
  /\ minted = 0
  /\ pull = [i \in Ids |-> FALSE]
  /\ push = [i \in Ids |-> NoPush]
  /\ down = [i \in Ids |-> <<>>]
  /\ closedFor = [i \in Ids |-> -1]
  /\ closedBy = [i \in Ids |-> "none"]
  /\ heartGap = [i \in Ids |-> 0]
  /\ onTime = [i \in Ids |-> 0]
  /\ c = NilClient
  /\ reply = NoReply

\* ------------------------------------------------------- clientConnection
\* variants that differ from the code at one point
AlreadyClosed_never(cc) == FALSE
Enqueue_front(stream, b) == b \o stream

\* alreadyClosed := c.closed, under closeMu
AlreadyClosed(cc) == cc.closed

\* the bytes of a body in the order they were written to it
Enqueue(stream, b) == stream \o b

\* the requests of the client, signed at wall-clock time nw
connect(dst, nw) == Req("/connect", genSign(nw, ServerSecret), c.uuid, "", <<>>, dst, FALSE, <<>>)
pullRequest_noUUID(nw) ==
  Req("/pull", genSign(nw, ServerSecret), 0, "", FormatInt(c.interval), "", FALSE, <<>>)

pullRequest(nw) ==
  Req("/pull", genSign(nw, ServerSecret), c.uuid, "", FormatInt(c.interval), "", FALSE, <<>>)
pushRequest(typ, data, chunked, nw) ==
  Req("/push", genSign(nw, ServerSecret), c.uuid, typ, <<>>, "", chunked, data)

\* the request leaves the client with the UUID header genSign has set
Sent(cc, r) == [cc EXCEPT !.wire = @ \cup {<<r.route, r.UUID>>}]

StatusOf_ok(resp) == NoErr

\* the error of push, pull and connect for a response
StatusOf(resp) == IF resp.status = HeadOK THEN NoErr ELSE StatusErr(resp)

\* the heartbeat task starts: conn.close = make(chan bool); go conn.alive()
Started(cc) == [cc EXCEPT !.stage = "ready", !.close = "open", !.alive = "wait", !.timer = 0,
                          !.beat = 0]

\* Client.Connect: connect, and in polling mode the heartbeat task
ClientConnect(iv, dst) ==
  /\ c.stage = "new"
  /\ minted < MaxTunnels
  /\ LET r == connect(dst, 0)
         o == handleConnect(r, 0)
     IN /\ Serve(r, o)
        /\ c' = IF o.resp.status # HeadOK THEN Sent([c EXCEPT !.stage = "failed"], r)
                ELSE IF iv > 0
                THEN Sent(Started([c EXCEPT !.uuid = o.resp.id, !.interval = iv]), r)
                ELSE Sent([c EXCEPT !.uuid = o.resp.id, !.interval = iv, !.stage = "pulling"], r)
  /\ UNCHANGED reply

\* Client.Connect in streaming mode: conn.pull(), then the heartbeat task
ClientOpenPull ==
  /\ c.stage = "pulling"
  /\ LET r == pullRequest(0)
         o == handlePull(r, 0)
     IN /\ Serve(r, o)
        /\ c' = IF o.resp.status # HeadOK THEN Sent([c EXCEPT !.stage = "failed"], r)
                ELSE Sent(Started([c EXCEPT !.source = "open", !.bodies = @ + 1]), r)
  /\ UNCHANGED reply

ClientOpenPullLost_alive ==
  /\ c.stage = "pulling"
  /\ c' = Sent([Started(c) EXCEPT !.stage = "failed"], pullRequest(0))
  /\ UNCHANGED <<server, observers, reply>>

\* the streaming pull of Connect gets no response: httpClient.Do returns an
\* error, and Connect returns it before it has started the heartbeat task
ClientOpenPullLost ==
  /\ c.stage = "pulling"
  /\ c' = Sent([c EXCEPT !.stage = "failed"], pullRequest(0))
  /\ UNCHANGED <<server, observers, reply>>

\* io.Copy of the frontend looks at what Read or Write has returned: an error
\* ends the copy, whose goroutine sends its result to errChan, and so does a
\* failed write of the bytes read to the closed socket
CopyResult(cc) ==
  IF ~cc.front THEN cc
  ELSE IF cc.ret.op = "Read" /\ ~cc.fdown /\ (cc.ret.err # NoErr \/ (cc.ret.n > 0 /\ cc.closes >= 1))
  THEN [cc EXCEPT !.fdown = TRUE, !.results = @ + 1]
  ELSE IF cc.ret.op = "Write" /\ ~cc.fup /\ cc.ret.err # NoErr
  THEN [cc EXCEPT !.fup = TRUE, !.results = @ + 1]
  ELSE cc

NeedsPull_always(cc) == TRUE

\* Read: if c.source == nil
NeedsPull(cc) == cc.source = "nil"

ErrEOF == Err("EOF", 0, "")
ErrCanceled == Err("context canceled", 0, "")

\* the end of Read: if err == io.EOF && c.interval > 0 { err = nil }
ReadErr(err, interval) == IF err = ErrEOF /\ interval > 0 THEN NoErr ELSE err

\* Read in polling mode: a pull if there is no source, then one read of the
\* source.  pull has cancelled the context of its request when it returns
\* (defer cancel()), so the read of a body that is not empty either finds the
\* bytes already received or fails with the context's error.
PollingRead ==
  /\ c.stage = "ready"
  /\ c.interval > 0
  /\ UNCHANGED reply
  /\ IF NeedsPull(c)
     THEN LET r == pullRequest(0)
              known == c.uuid \in proxyMap
          IN \E o \in {handlePull(r, 0)} :
             /\ Serve(r, o)
             /\ \E canceled \in BOOLEAN :
                  c' = CopyResult(Sent(IF o.resp.status # HeadOK
                       THEN [c EXCEPT !.ret = Ret("Read", 0, StatusOf(o.resp), o.resp.status, known)]
                       ELSE IF o.resp.data # <<>> /\ canceled
                       THEN [c EXCEPT !.source = "nil",
                                      !.ret = Ret("Read", 0, ReadErr(ErrCanceled, c.interval),
                                                   HeadOK, known)]
                       ELSE IF o.resp.data # <<>>
                       THEN [c EXCEPT !.source = "open", !.got = @ \o o.resp.data,
                                      !.bodies = @ + 1,
                                      !.ret = Ret("Read", Len(o.resp.data), NoErr, HeadOK, known)]
                       ELSE \* io.EOF at once: the source is dropped, the error too
                            [c EXCEPT !.source = "nil",
                                      !.ret = Ret("Read", 0, ReadErr(ErrEOF, c.interval),
                                                   HeadOK, known)], r))
     ELSE \* the body has been read: io.EOF, the source is dropped, the error too
          /\ c' = CopyResult([c EXCEPT !.source = "nil", !.bodies = @ - 1,
                            !.ret = Ret("Read", 0, ReadErr(ErrEOF, c.interval), 0, FALSE)])
          /\ UNCHANGED <<server, observers>>

StreamingRead_eofFirst ==
  /\ c.stage = "ready"
  /\ c.interval = 0
  /\ c.source = "open"
  /\ ~pull[c.uuid]
  /\ c' = CopyResult([c EXCEPT !.source = "nil", !.bodies = @ - 1,
                    !.ret = Ret("Read", 0, ErrEOF, 0, FALSE)])
  /\ UNCHANGED <<server, observers, reply>>

StreamingRead_repulls ==
  /\ c.stage = "ready"
  /\ c.interval = 0
  /\ UNCHANGED reply
  /\ IF NeedsPull(c)
     THEN LET r == pullRequest(0)
              o == handlePull(r, 0)
          IN /\ Serve(r, o)
             /\ c' = CopyResult(IF o.resp.status # HeadOK
                     THEN Sent([c EXCEPT !.ret = Ret("Read", 0, StatusOf(o.resp),
                                                      o.resp.status, FALSE)], r)
                     ELSE Sent([c EXCEPT !.source = "open", !.bodies = @ + 1,
                                         !.ret = Ret("Read", 0, NoErr, HeadOK, FALSE)], r))
     ELSE IF down[c.uuid] # <<>>
     THEN /\ c' = CopyResult([c EXCEPT !.got = @ \o down[c.uuid],
                            !.ret = Ret("Read", Len(down[c.uuid]), NoErr, 0, FALSE)])
          /\ down' = [down EXCEPT ![c.uuid] = <<>>]
          /\ UNCHANGED <<proxyMap, conns, minted, pull, push, observers>>
     ELSE /\ ~pull[c.uuid]
          /\ c' = CopyResult([c EXCEPT !.source = "nil", !.bodies = @ - 1,
                            !.ret = Ret("Read", 0, ReadErr(ErrEOF, c.interval), 0, FALSE)])
          /\ UNCHANGED <<server, observers>>

\* Read in streaming mode: a read of the /pull response body
StreamingRead ==
  /\ c.stage = "ready"
  /\ c.interval = 0
  /\ UNCHANGED reply
  /\ IF NeedsPull(c)
     THEN /\ c' = CopyResult([c EXCEPT !.ret = Ret("Read", 0,
                                         Err("pull http connection is not ready", 0, ""), 0, FALSE)])
          /\ UNCHANGED <<server, observers>>
     ELSE IF down[c.uuid] # <<>>
     THEN /\ c' = CopyResult([c EXCEPT !.got = @ \o down[c.uuid],
                            !.ret = Ret("Read", Len(down[c.uuid]), NoErr, 0, FALSE)])
          /\ down' = [down EXCEPT ![c.uuid] = <<>>]
          /\ UNCHANGED <<proxyMap, conns, minted, pull, push, observers>>
     ELSE \* the handler has returned: io.EOF, which in this mode is returned
          /\ ~pull[c.uuid]
          /\ c' = CopyResult([c EXCEPT !.source = "nil", !.bodies = @ - 1,
                            !.ret = Ret("Read", 0, ReadErr(ErrEOF, c.interval), 0, FALSE)])
          /\ UNCHANGED <<server, observers>>

\* the test's p.uuid = ""
ClientForgetUUID ==
  /\ c.stage = "ready"
  /\ c.uuid # 0
  /\ c' = [c EXCEPT !.uuid = 0]
  /\ UNCHANGED <<server, observers, reply>>

\* Write in polling mode: push(b, "data")
\* the buffer of the next Write: the bytes written are numbered in call order
NextBuffer == <<Len(c.written) + 1>>

PollingWrite(b) ==
  /\ c.stage = "ready"
  /\ c.interval > 0
  /\ Len(c.written) < MaxWrites
  /\ UNCHANGED reply
  /\ LET r == pushRequest("data", b, FALSE, 0)
         o == handlePush(r, 0)
         err == StatusOf(o.resp)
         known == c.uuid \in proxyMap
     IN /\ Serve(r, o)
        /\ c' = CopyResult(IF err # NoErr
                THEN Sent([c EXCEPT !.ret = Ret("Write", 0, err, o.resp.status, known)], r)
                ELSE Sent([c EXCEPT !.written = @ \o b,
                                    !.ret = Ret("Write", Len(b), NoErr, HeadOK, known)], r))

\* Write in streaming mode: chunkPush(b, "data").  The first call makes the
\* pipe and starts the request; b is written to the pipe, and the call blocks
\* until the transport has read it or the pipe is closed.  A write to a
\* closed pipe fails at once
StreamingWrite_reopens(b) ==
  /\ c.stage = "ready"
  /\ c.interval = 0
  /\ c.wstate = "idle"
  /\ Len(c.written) < MaxWrites
  /\ UNCHANGED reply
  /\ c' = [c EXCEPT !.dst = "open",
                    !.chunk = IF c.dst # "open" THEN "sent" ELSE @,
                    !.chunks = IF c.dst # "open" THEN @ + 1 ELSE @,
                    !.pipe = b,
                    !.wstate = "blocked",
                    !.ret = NoRet,
                    !.wire = IF c.dst # "open"
                             THEN Sent(c, pushRequest("data", b, TRUE, 0)).wire ELSE @]
  /\ UNCHANGED <<server, observers>>

StreamingWrite(b) ==
  /\ c.stage = "ready"
  /\ c.interval = 0
  /\ c.wstate = "idle"
  /\ Len(c.written) < MaxWrites
  /\ UNCHANGED reply
  /\ c' = IF c.dst = "closed"
          THEN CopyResult([c EXCEPT !.ret = Ret("Write", 0, ErrClosedPipe, 0, FALSE)])
          ELSE [c EXCEPT !.dst = "open",
                         !.chunk = IF c.dst = "nil" THEN "sent" ELSE @,
                         !.chunks = IF c.dst = "nil" THEN @ + 1 ELSE @,
                         !.pipe = b,
                         !.wstate = "blocked",
                         !.ret = NoRet,
                         !.wire = IF c.dst = "nil"
                                  THEN Sent(c, pushRequest("data", b, TRUE, 0)).wire ELSE @]
  /\ UNCHANGED <<server, observers>>

\* the transport reads the body of the request from the pipe: the blocked
\* Write is complete
ChunkTake ==
  /\ c.wstate = "blocked"
  /\ c.dst = "open"
  /\ c' = [c EXCEPT !.flight = Enqueue(@, c.pipe),
                    !.written = @ \o c.pipe,
                    !.wstate = "taken"]
  /\ UNCHANGED <<server, observers, reply>>

\* the blocked Write returns: len(b) and nil once the pipe has been read,
\* 0 and io.ErrClosedPipe when the pipe was closed under it
WriteReturn ==
  /\ \/ c.wstate = "taken"
     \/ c.wstate = "blocked" /\ c.dst = "closed"
  /\ c' = CopyResult(IF c.wstate = "taken"
          THEN [c EXCEPT !.wstate = "idle", !.pipe = <<>>,
                         !.ret = Ret("Write", Len(c.pipe), NoErr, 0, FALSE)]
          ELSE [c EXCEPT !.wstate = "idle", !.pipe = <<>>,
                         !.ret = Ret("Write", 0, ErrClosedPipe, 0, FALSE)])
  /\ UNCHANGED <<server, observers, reply>>

\* the chunked /push reaches the server with the bytes sent so far; a
\* response other than the one after io.Copy ends the goroutine of chunkPush,
\* which closes the pipe
ChunkArrive ==
  /\ c.chunk = "sent"
  /\ LET r == pushRequest("data", c.flight, TRUE, 0)
     IN \E o \in {handlePush(r, 0)} :
        LET accepted == o.st.push[c.uuid].active
        IN
        /\ Serve(r, o)
        /\ c' = IF c.uuid \in Ids /\ accepted
                THEN [c EXCEPT !.chunk = "copying", !.flight = <<>>]
                ELSE [c EXCEPT !.chunk = "done", !.dst = "closed", !.flight = <<>>,
                               !.pushed = o.resp.status]
  /\ UNCHANGED reply

\* more bytes of the body reach the server
ChunkMore ==
  /\ c.chunk = "copying"
  /\ c.flight # <<>>
  /\ push[c.uuid].active
  /\ push' = [push EXCEPT ![c.uuid].wire = Enqueue(@, c.flight)]
  /\ c' = [c EXCEPT !.flight = <<>>]
  /\ UNCHANGED <<proxyMap, conns, minted, pull, down, observers, reply>>

\* the handler has returned: httpClient.Do returns and the deferred
\* ww.Close(), wr.Close() run
ChunkReturn_leavesPipe ==
  /\ c.chunk = "copying"
  /\ ~push[c.uuid].active
  /\ c' = [c EXCEPT !.chunk = "done", !.flight = <<>>]
  /\ UNCHANGED <<server, observers, reply>>

ChunkReturn ==
  /\ c.chunk = "copying"
  /\ ~push[c.uuid].active
  /\ c' = [c EXCEPT !.chunk = "done", !.dst = "closed", !.flight = <<>>, !.pushed = HeadOK]
  /\ UNCHANGED <<server, observers, reply>>

\* Close: the first call closes the close channel and pushes quit, whose
\* error it returns; a later call returns nil
ClientClose_keepsChannel ==
  /\ c.stage = "ready"
  /\ c.closes < MaxCloses
  /\ IF AlreadyClosed(c)
     THEN /\ c' = [c EXCEPT !.closes = @ + 1, !.ret = Ret("Close", 0, NoErr, 0, FALSE)]
          /\ UNCHANGED <<server, observers>>
     ELSE LET r == pushRequest("quit", <<>>, FALSE, 0)
              known == c.uuid \in proxyMap
          IN \E o \in {handlePush(r, 0)} :
             /\ Serve(r, o)
             /\ c' = Sent([c EXCEPT !.closed = TRUE, !.closes = @ + 1,
                                    !.quits = @ + 1, !.owed = Arrived(c.uuid),
                                    !.ret = Ret("Close", 0, StatusOf(o.resp), o.resp.status, known)],
                           r)
  /\ UNCHANGED reply

ClientClose ==
  /\ c.stage = "ready"
  /\ c.closes < MaxCloses
  /\ IF AlreadyClosed(c)
     THEN /\ c' = [c EXCEPT !.closes = @ + 1, !.ret = Ret("Close", 0, NoErr, 0, FALSE)]
          /\ UNCHANGED <<server, observers>>
     ELSE LET r == pushRequest("quit", <<>>, FALSE, 0)
              known == c.uuid \in proxyMap
          IN \E o \in {handlePush(r, 0)} :
             /\ Serve(r, o)
             /\ c' = Sent([c EXCEPT !.closed = TRUE, !.close = "closed", !.closes = @ + 1,
                                    !.quits = @ + 1, !.owed = Arrived(c.uuid),
                                    !.ret = Ret("Close", 0, StatusOf(o.resp), o.resp.status, known)],
                           r)
  /\ UNCHANGED reply

\* Close whose quit push never reaches the server: the context of the push
\* expires and Close returns its error
ClientCloseLost ==
  /\ c.stage = "ready"
  /\ c.closes < MaxCloses
  /\ ~AlreadyClosed(c)
  /\ c' = Sent([c EXCEPT !.closed = TRUE, !.close = "closed", !.closes = @ + 1,
                         !.quits = @ + 1, !.owed = Arrived(c.uuid),
                         !.ret = Ret("Close", 0, Err("context deadline exceeded", 0, ""), 0, FALSE)],
                pushRequest("quit", <<>>, FALSE, 0))
  /\ UNCHANGED <<server, observers, reply>>

\* Close, step by step, called by task t while other tasks call it too
Locked_never(cc) == FALSE

\* closeMu is held
Locked(cc) == cc.closeMu # 0

\* c.closeMu.Lock()
CloseLock(t) ==
  /\ c.stage = "ready"
  /\ c.task[t].at = "idle"
  /\ ~Locked(c)
  /\ c' = [c EXCEPT !.closeMu = t, !.closes = @ + 1, !.task[t].at = "locked"]
  /\ UNCHANGED <<server, observers, reply>>

\* alreadyClosed := c.closed
CloseRead(t) ==
  /\ c.task[t].at = "locked"
  /\ c' = [c EXCEPT !.task[t].at = "read", !.task[t].alreadyClosed = c.closed]
  /\ UNCHANGED <<server, observers, reply>>

\* if !alreadyClosed { c.closed = true }; c.closeMu.Unlock()
CloseUnlock(t) ==
  /\ c.task[t].at = "read"
  /\ c' = [c EXCEPT !.closed = IF c.task[t].alreadyClosed THEN @ ELSE TRUE,
                    !.closeMu = 0, !.task[t].at = "unlocked"]
  /\ UNCHANGED <<server, observers, reply>>

\* if alreadyClosed { return nil }; close(c.close)
CloseSignal(t) ==
  /\ c.task[t].at = "unlocked"
  /\ c' = IF c.task[t].alreadyClosed
          THEN [c EXCEPT !.task[t].at = "returned", !.ret = Ret("Close", 0, NoErr, 0, FALSE)]
          ELSE [c EXCEPT !.task[t].at = "signalled", !.close = "closed", !.shut = @ + 1]
  /\ UNCHANGED <<server, observers, reply>>

\* return c.quit()
CloseQuit(t) ==
  /\ c.task[t].at = "signalled"
  /\ LET r == pushRequest("quit", <<>>, FALSE, 0)
         o == handlePush(r, 0)
         known == c.uuid \in proxyMap
     IN /\ Serve(r, o)
        /\ c' = Sent([c EXCEPT !.task[t].at = "returned", !.task[t].quit = TRUE,
                               !.quits = @ + 1, !.owed = Arrived(c.uuid),
                               !.ret = Ret("Close", 0, StatusOf(o.resp), o.resp.status, known)],
                      r)
  /\ UNCHANGED reply

\* alive: case <-time.After(...): the heart push is sent
AliveFire ==
  /\ c.alive = "wait"
  /\ c.timer >= AlivePeriod
  /\ c' = Sent([c EXCEPT !.alive = "push", !.timer = 0, !.beat = 0,
                         !.hearts = Min(@ + 1, 2),
                         !.late = IF c.closed THEN Min(@ + 1, 2) ELSE @,
                         !.gap = IF c.hearts >= 1 /\ ~c.closed THEN c.beat ELSE @],
                pushRequest("heart", <<>>, FALSE, 0))
  /\ UNCHANGED <<server, observers, reply>>

\* alive: case <-c.close: return
AliveReturn ==
  /\ c.alive = "wait"
  /\ c.close = "closed"
  /\ c' = [c EXCEPT !.alive = "exited", !.timer = 0]
  /\ UNCHANGED <<server, observers, reply>>

\* the heart push is answered; on an error alive returns
HeartDone ==
  /\ c.alive = "push"
  /\ LET r == pushRequest("heart", <<>>, FALSE, 0)
     IN \E o \in {handlePush(r, 0)} :
          /\ Serve(r, o)
          /\ c' = [c EXCEPT !.alive = IF o.resp.status = HeadOK THEN "wait" ELSE "exited",
                            !.timer = 0]
  /\ UNCHANGED reply

\* the context of the heart push expires after timeout seconds: push returns
\* an error and alive returns
HeartExpire ==
  /\ c.alive = "push"
  /\ c.timer >= timeout
  /\ c' = [c EXCEPT !.alive = "exited", !.timer = 0]
  /\ UNCHANGED <<server, observers, reply>>

\* ---------------------------------------------------------- specifications
\* The server with its tunnels, their lifecycle goroutines and targets, under
\* requests signed at wall-clock time 0 with the server's secret.  The timers
\* are sampled every heartTTL/2 seconds.
ServerHeaders == {genSign(0, ServerSecret)}

Requests ==
  \/ \E r \in ConnectReqs(ServerHeaders) : Connect(r, 0)
  \/ \E r \in PullReqs(ServerHeaders) : Pull(r, 0)
  \/ \E r \in PushReqs(ServerHeaders) : Push(r, 0)

Lifecycle ==
  \/ \E i \in Ids : PullLoop(i)
  \/ \E i \in Ids : DoSelect(i)
  \/ \E i \in Ids : DoTimeout(i)
  \/ \E i \in Ids : DoDelete(i)
  \/ \E i \in Ids : TargetClose(i)

Next ==
  \/ Requests
  \/ Lifecycle
  \/ Tick(heartTTL \div 2)

Spec == Init /\ [][Next]_vars

\* the ids minted so far
Minted == 1 .. minted

\* ------------------------------------------------------ the signed headers
\* the handler the mux routes r to
Route(r, nw) ==
  IF r.route = "/connect" THEN handleConnect(r, nw)
  ELSE IF r.route = "/pull" THEN handlePull(r, nw)
  ELSE handlePush(r, nw)

\* The server under the requests of a requester whose timestamp and sign
\* headers are well-formed or not, and are handled signTTL seconds after the
\* signing or one second later; the server's timers do not run and the
\* targets stay connected.
\*   no headers; a timestamp that is no number, signed; a timestamp signed
\*   with the server's secret; the same signed with another secret; a
\*   timestamp ahead of the first clocks, signed with the server's secret
AuthHeaders ==
  {NoHeaders,
   [timestamp |-> <<"x">>, sign |-> GenHMACSHA1(ServerSecret, <<"x">>)],
   genSign(0, ServerSecret),
   genSign(0, "54321"),
   genSign(2 * signTTL + 1, ServerSecret)}
Clocks == {signTTL, signTTL + 1, 3 * signTTL + 2}

\* the requests of the three protected routes
ProtectedReqs(H) ==
  ConnectReqs(H)
  \cup {r \in PullReqs(H) : r.Interval \in {<<>>, <<"2", "0">>}}
  \cup PushReqs(H)

\* the checks a protected request has to pass
BadTimestamp(r) == r.timestamp = <<>> \/ ~ParseInt(r.timestamp).ok
TimestampAge(r, nw) == IF BadTimestamp(r) THEN 0 ELSE nw - ParseInt(r.timestamp).val
BadSign(r) == r.sign # GenHMACSHA1(ServerSecret, r.timestamp)

\* the response to r, what the checks say of r, and whether the handler
\* changed anything
Reply(r, nw, o) ==
  [status |-> o.resp.status, body |-> o.resp.body,
   parsed |-> ~BadTimestamp(r), age |-> TimestampAge(r, nw), signed |-> ~BadSign(r),
   changed |-> o.st # State]

Observed(r, nw) ==
  /\ Conforms(r)
  /\ r.route = "/connect" => minted < MaxTunnels
  /\ LET o == Route(r, nw)
     IN Serve(r, o) /\ reply' = Reply(r, nw, o)
  /\ UNCHANGED c

NextAuth ==
  \/ \E nw \in Clocks : \E r \in ProtectedReqs(AuthHeaders) : Observed(r, nw)
  \/ \E i \in Ids : DoSelect(i)
  \/ \E i \in Ids : DoDelete(i)

SpecAuth == Init /\ [][NextAuth]_vars

\* ----------------------------------------------------------------- C5
\* C5: a /connect, /pull or /push whose timestamp is empty or no signed
\* integer, or is expired, or whose sign does not verify, is answered 404
\* "404" and leaves the server as it was: nothing dialled, the registry, the
\* tunnels, their goroutines and their target sockets untouched.
C5_RejectedUntouched ==
  (reply.status # 0 /\ (~reply.parsed \/ reply.age > signTTL \/ ~reply.signed)) =>
    (reply.status = HeadNotFound /\ reply.body = "404" /\ ~reply.changed)

\* a request without the signed headers was answered 404 while a tunnel was
\* registered, its goroutine waiting in select
C5_Witness ==
  /\ reply.status = HeadNotFound
  /\ ~reply.parsed
  /\ \E i \in proxyMap : conns[i].life = "select" /\ ~conns[i].hasClosed

\* ----------------------------------------------------------------- C6
\* C6: a protected request whose timestamp is more than signTTL seconds old
\* is answered 404 and changes nothing, whether its sign is the HMAC of the
\* timestamp or not; one whose timestamp is exactly signTTL seconds old and
\* whose sign is the HMAC of the timestamp is not answered 404.
C6_Freshness ==
  /\ (reply.parsed /\ reply.age > signTTL) =>
       (reply.status = HeadNotFound /\ ~reply.changed)
  /\ (reply.parsed /\ reply.age = signTTL /\ reply.signed) =>
       reply.status # HeadNotFound

\* a /connect signed exactly signTTL seconds before made a tunnel
C6_Witness ==
  /\ reply.parsed /\ reply.age = signTTL /\ reply.signed
  /\ reply.status = HeadOK /\ reply.changed /\ minted > 0

\* the authenticated /pull and /push requests on id i
RequestsOn(i) == {r \in PullReqs(ServerHeaders) \cup PushReqs(ServerHeaders) : r.UUID = i}

\* ----------------------------------------------------------------- C1
\* C1: a closed server tunnel (quit push, heartTTL without a heart, target
\* disconnect) has its id out of the registry no later than heartTTL seconds
\* after the close; an id that has left the registry never returns to it, and
\* every authenticated /pull or /push on it is answered 500 "uuid don't exist"
\* and changes nothing.
C1_RegistryCleanup ==
  /\ [](\A i \in Minted :
          /\ closedFor[i] >= 0 => closedFor[i] <= heartTTL
          /\ conns[i].life = "done" => i \notin proxyMap
          /\ i \notin proxyMap =>
                \A r \in RequestsOn(i) :
                  Route(r, 0) = Out(HTTPError("uuid don't exist"), State))
  /\ [][\A i \in Minted : i \notin proxyMap => i \notin proxyMap']_vars

\* the close signal was dropped (Do was not in its select), and the id left
\* the registry exactly heartTTL seconds after the quit push
C1_Witness ==
  \E i \in Minted :
    closedBy[i] = "quit" /\ closedFor[i] = heartTTL /\ i \notin proxyMap

\* ----------------------------------------------------------------- C2
\* C2 as stated: every id in the registry maps to a tunnel whose closed flag
\* is false.
C2_I1 == \A i \in proxyMap : ~conns[i].hasClosed

\* C2: every id in the registry maps to a tunnel whose lifecycle goroutine has
\* not run its delete, and every minted id out of the registry to one whose
\* goroutine has; the target connection of a registered tunnel is open until
\* Do returns; the closed flag of a registered tunnel may be set, for at most
\* heartTTL seconds.
C2_RegisteredUndeleted ==
  \A i \in Minted :
    /\ i \in proxyMap <=> conns[i].life \in {"loop", "select", "exited"}
    /\ conns[i].life \in {"loop", "select"} => conns[i].remote = "open"
    /\ (i \in proxyMap /\ conns[i].hasClosed) => closedFor[i] \in 0 .. heartTTL

\* a registered tunnel with its closed flag set, Do still waiting
C2_Witness ==
  \E i \in proxyMap :
    conns[i].hasClosed /\ conns[i].life = "select" /\ closedFor[i] > 0

\* ----------------------------------------------------------------- C3
\* C3 as stated: on every termination path the id is out of the registry
\* by the time the target connection is closed.
C3_I2 ==
  [][\A i \in Minted :
       (conns[i].remote = "open" /\ conns'[i].remote = "closed") => i \notin proxyMap']_vars

\* C3: on every termination path the target connection is closed first, by
\* the deferred Close of Do, while the id is still registered, and the id is
\* deleted after it.
C3_CloseThenDelete ==
  [][\A i \in Minted :
       /\ (conns[i].remote = "open" /\ conns'[i].remote = "closed") => i \in proxyMap'
       /\ (i \in proxyMap /\ i \notin proxyMap') => conns[i].remote = "closed"]_vars

\* Do has returned and closed the target connection, the delete is yet to run
C3_Witness ==
  \E i \in proxyMap : conns[i].remote = "closed" /\ conns[i].life = "exited"

\* ------------------------------------------------------ the polling client
\* One client connection in polling mode against the server: its Read, Write
\* and Close, the lifecycle goroutine of its tunnel, and the target.  The
\* timers do not run.
NextPoll ==
  \/ ClientConnect(PollInterval, "up")
  \/ PollingRead
  \/ PollingWrite(NextBuffer)
  \/ ClientForgetUUID
  \/ ClientClose
  \/ AliveReturn
  \/ \E i \in Ids : DoSelect(i)
  \/ \E i \in Ids : DoDelete(i)
  \/ \E i \in Ids : TargetSend(i)
  \/ \E i \in Ids : TargetClose(i)

SpecPoll == Init /\ [][NextPoll]_vars

\* --------------------------------------------------------- the heartbeats
\* The heartbeat task of one client connection against the server and the
\* lifecycle goroutine of its tunnel, and the Write calls of the connection.
\* The timers are sampled every timeout seconds; a request is handled within
\* the second it was signed in.
NextHeart ==
  \/ ClientConnect(PollInterval, "up")
  \/ PollingWrite(NextBuffer)
  \/ ClientClose
  \/ AliveFire
  \/ AliveReturn
  \/ HeartDone
  \/ HeartExpire
  \/ \E i \in Ids : DoSelect(i)
  \/ \E i \in Ids : DoTimeout(i)
  \/ \E i \in Ids : DoDelete(i)
  \/ \E i \in Ids : TargetClose(i)
  \/ Tick(timeout)

SpecHeart == Init /\ [][NextHeart]_vars

\* ---------------------------------------------------- the streaming client
\* One client connection in streaming mode: the chunked /pull response and
\* the chunked /push request body.  The timers do not run.
NextStream ==
  \/ ClientConnect(0, "up")
  \/ ClientOpenPull
  \/ StreamingRead
  \/ StreamingWrite(NextBuffer)
  \/ ChunkTake
  \/ WriteReturn
  \/ ChunkArrive
  \/ ChunkMore
  \/ ChunkReturn
  \/ ClientClose
  \/ \E i \in Ids : PullLoop(i)
  \/ \E i \in Ids : PushCopy(i)
  \/ \E i \in Ids : DoSelect(i)
  \/ \E i \in Ids : DoDelete(i)
  \/ \E i \in Ids : TargetSend(i)
  \/ \E i \in Ids : TargetClose(i)

SpecStream == Init /\ [][NextStream]_vars

\* the transport keeps sending what is in the pipe, and io.Copy keeps copying
\* what has arrived
FairStream ==
  /\ SpecStream
  /\ WF_vars(ChunkTake)
  /\ WF_vars(WriteReturn)
  /\ WF_vars(ChunkArrive)
  /\ WF_vars(ChunkMore)
  /\ WF_vars(\E i \in Ids : PushCopy(i))

\* the server and the network keep responding: besides the above, the round
\* trip of the chunked /push ends once its handler has returned, and the
\* handlers and goroutines of the server keep running
FairStreamAll ==
  /\ FairStream
  /\ WF_vars(ChunkReturn)
  /\ \A i \in Ids : WF_vars(PullLoop(i)) /\ WF_vars(DoSelect(i)) /\ WF_vars(DoDelete(i))

\* ------------------------------------------------------------ the frontend
\* LocalServer.handleConn after the tunnel is set up: transport runs the two
\* copies, each in its goroutine, and returns with the first result in
\* errChan; the deferred conn2.Close() and conn.Close() then run.  The clock
\* is followed from the return of handleConn on; until then the heartbeat
\* task keeps the timer of Do from firing, and its pushes are left out.

\* the accepted socket is closed: handleConn has returned, after Connect
\* failed or after transport
SockClosed == c.stage = "failed" \/ c.closes >= 1

\* handleConn has accepted a connection and read the address of the target
FrontAccept ==
  /\ c.stage = "new"
  /\ ~c.front
  /\ c' = [c EXCEPT !.front = TRUE]
  /\ UNCHANGED <<server, observers, reply>>

\* io.Copy(conn1, conn2) calls Read of the tunnel
FrontRead ==
  /\ ~c.fdown
  /\ PollingRead \/ StreamingRead

\* io.Copy(conn2, conn1) has read from the socket and calls Write of the tunnel
FrontWrite ==
  /\ ~c.fup
  /\ ~SockClosed
  /\ PollingWrite(NextBuffer) \/ StreamingWrite(NextBuffer)

\* io.Copy(conn2, conn1) reads the end of the socket: the application has
\* closed it, or handleConn has
SockEnd ==
  /\ c.stage = "ready"
  /\ ~c.fup
  /\ c.wstate = "idle"
  /\ c' = [c EXCEPT !.fup = TRUE, !.results = @ + 1]
  /\ UNCHANGED <<server, observers, reply>>

FrontReturn_early ==
  /\ c.closes = 0
  /\ ClientClose \/ ClientCloseLost

\* err = <-errChan; return: the deferred conn2.Close(), whose quit push may be
\* lost
FrontReturn ==
  /\ c.results >= 1
  /\ c.closes = 0
  /\ ClientClose \/ ClientCloseLost

NextFront ==
  \/ FrontAccept
  \/ c.front /\ ClientConnect(0, "up")
  \/ c.front /\ ClientConnect(PollInterval, "up")
  \/ ClientOpenPull
  \/ FrontRead
  \/ FrontWrite
  \/ SockEnd
  \/ FrontReturn
  \/ ChunkTake
  \/ WriteReturn
  \/ ChunkArrive
  \/ ChunkMore
  \/ ChunkReturn
  \/ AliveReturn
  \/ \E i \in Ids : PullLoop(i)
  \/ \E i \in Ids : PushCopy(i)
  \/ \E i \in Ids : DoSelect(i)
  \/ \E i \in Ids : DoTimeout(i)
  \/ \E i \in Ids : DoDelete(i)
  \/ \E i \in Ids : TargetSend(i)
  \/ \E i \in Ids : TargetClose(i)
  \/ c.closed /\ Tick(timeout)

SpecFront == Init /\ [][NextFront]_vars

\* the copies keep calling, the transport, the handlers and the goroutines
\* keep running, a read of the closed socket fails, and time passes: a step
\* of these is taken when one stays possible.  The application need not send
\* or close, and the target need not either
FairFront ==
  /\ SpecFront
  /\ WF_vars(\/ ClientOpenPull
             \/ FrontRead
             \/ FrontReturn
             \/ SockClosed /\ SockEnd
             \/ ChunkTake
             \/ WriteReturn
             \/ ChunkArrive
             \/ ChunkMore
             \/ ChunkReturn
             \/ AliveReturn
             \/ \E i \in Ids : PullLoop(i) \/ PushCopy(i) \/ DoSelect(i)
                                 \/ DoTimeout(i) \/ DoDelete(i)
             \/ c.closed /\ Tick(timeout))

\* ----------------------------------------------------------------- C4
\* C4: every authenticated /pull or /push on an id that is not in the
\* registry, the empty id included, is answered 500 "uuid don't exist" and
\* changes neither the registry nor a tunnel; a Read of the polling client
\* that pulls for such an id returns zero bytes and an error that contains
\* "uuid don't exist".
C4_UnknownId ==
  /\ \A u \in UUIDs \ proxyMap : \A r \in RequestsOn(u) :
        Route(r, 0) = Out(HTTPError("uuid don't exist"), State)
  /\ (c.ret.op = "Read" /\ c.ret.status # 0 /\ ~c.ret.known) =>
        (c.ret.n = 0 /\ c.ret.err # NoErr /\ Contains(c.ret.err, "uuid don't exist"))

\* the uuid of the client was set to "", and its Read pulled
C4_Witness ==
  /\ c.uuid = 0 /\ c.interval > 0
  /\ c.ret.op = "Read" /\ c.ret.status = HeadError /\ ~c.ret.known
  /\ proxyMap # {}

\* ----------------------------------------------------------------- C7
\* C7 as stated: the calls of Close return without error, and at most one
\* quit push is sent.
C7_AsStated == (c.ret.op = "Close" => c.ret.err = NoErr) /\ c.quits <= 1

\* C7: at most one quit push is sent, by the first call of Close; a later
\* call returns nil; the first call returns nil if the quit push was answered
\* 200 and else the error of the push, which names status and body.
C7_CloseOnce ==
  /\ c.quits <= 1
  /\ c.quits = (IF c.closes >= 1 THEN 1 ELSE 0)
  /\ (c.ret.op = "Close" /\ c.closes >= 2) => c.ret.err = NoErr
  /\ (c.ret.op = "Close" /\ c.closes = 1) =>
        /\ c.ret.status = HeadOK <=> c.ret.err = NoErr
        /\ c.ret.status # HeadOK =>
              (c.ret.status = HeadError /\ c.ret.err.status = HeadError
               /\ c.ret.err.body \in {"uuid don't exist", "remote conn is closed"})

\* Close was called twice
C7_Witness ==
  c.closes = 2 /\ c.ret.op = "Close" /\ c.ret.err = NoErr /\ c.quits = 1

\* ----------------------------------------------------------------- C8
\* the bytes written to the target socket of the client's tunnel
Delivered == IF c.uuid \in Ids THEN conns[c.uuid].tx ELSE <<>>

\* the tunnel has been closed: by Close of the client, by the server, or by
\* the target
TunnelClosed ==
  \/ c.closed
  \/ c.uuid \in Ids /\ (Closes(conns[c.uuid]) \/ conns[c.uuid].peer = "closed")

IsPrefix(a, b) == Len(a) <= Len(b) /\ a = SubSeq(b, 1, Len(a))

\* C8: in streaming mode the bytes delivered to the target socket are at
\* every moment a prefix of the buffers of the Write calls in call order, and
\* every byte of a Write that returned success is delivered in the end unless
\* the tunnel is closed.
C8_StreamFidelity ==
  /\ [](c.interval = 0 => IsPrefix(Delivered, c.written))
  /\ \A k \in 1 .. MaxWrites :
        (Len(c.written) >= k) ~> (Len(Delivered) >= k \/ TunnelClosed)

\* all the bytes of two Writes have reached the target of an open tunnel
C8_Witness ==
  /\ c.interval = 0 /\ c.stage = "ready"
  /\ Len(c.written) = MaxWrites /\ Delivered = c.written
  /\ ~TunnelClosed

\* ----------------------------------------------------------------- C9
\* C9: while the client tunnel is open, a heart push is sent less than
\* heartTTL seconds after the one before: heartTTL/2 seconds of waiting after
\* at most timeout seconds of the push before.
C9_HeartPeriod ==
  /\ c.gap < heartTTL
  /\ c.gap <= AlivePeriod + timeout
  /\ (c.alive \in {"wait", "push"} /\ ~c.closed) => c.beat <= AlivePeriod + timeout

\* two heart pushes, the first of which took timeout seconds
C9_Witness ==
  c.hearts >= 2 /\ c.gap = AlivePeriod + timeout /\ ~c.closed

\* ---------------------------------------------------------------- C10
\* the tunnel has been closed by nothing but a heart timeout, if at all
NoQuitNoError(i) == closedBy[i] \notin {"quit", "peer"}

Usable(i) == i \in proxyMap /\ ~conns[i].hasClosed /\ conns[i].remote = "open"

\* C10: a tunnel with no quit push and no I/O error whose last heart (or
\* /connect) is less than heartTTL old is registered, unclosed and connected
\* to its target, so with a heart every heartTTL/2 it stays so for 2*heartTTL
\* and longer; once no heart has come for heartTTL it is out of the registry
\* with its target connection closed.
C10_HeartKeepsAlive ==
  \A i \in Minted :
    NoQuitNoError(i) =>
      /\ heartGap[i] < heartTTL => Usable(i)
      /\ (i \in proxyMap \/ conns[i].remote = "open") => heartGap[i] <= heartTTL
      /\ (heartGap[i] >= heartTTL /\ conns[i].life = "done") =>
            (i \notin proxyMap /\ conns[i].remote = "closed" /\ closedBy[i] = "timeout")

\* a tunnel that has lived 2*heartTTL with a heart every heartTTL/2 and is
\* usable, next to one that got no heart for heartTTL and is gone
C10_Witness ==
  \E i, j \in Minted :
    /\ onTime[i] = 2 * heartTTL /\ Usable(i) /\ NoQuitNoError(i)
    /\ closedBy[j] = "timeout" /\ heartGap[j] = heartTTL
    /\ j \notin proxyMap /\ conns[j].remote = "closed"

\* A streaming tunnel with its reader, its heartbeat task and Close, whose quit
\* push may be lost, over the server tunnel with its timers.
NextStreamClose ==
  \/ ClientConnect(0, "up")
  \/ ClientOpenPull
  \/ ClientOpenPullLost
  \/ StreamingRead
  \/ ClientClose
  \/ ClientCloseLost
  \/ AliveFire
  \/ AliveReturn
  \/ HeartDone
  \/ HeartExpire
  \/ \E i \in Ids : PullLoop(i)
  \/ \E i \in Ids : DoSelect(i)
  \/ \E i \in Ids : DoTimeout(i)
  \/ \E i \in Ids : DoDelete(i)
  \/ \E i \in Ids : TargetSend(i)
  \/ \E i \in Ids : TargetClose(i)
  \/ Tick(timeout)

SpecStreamClose == Init /\ [][NextStreamClose]_vars

\* the reader keeps calling Read, the handlers and goroutines keep running,
\* pushes are answered or expire, and time passes
FairStreamClose ==
  /\ SpecStreamClose
  /\ WF_vars(StreamingRead)
  /\ WF_vars(AliveReturn)
  /\ WF_vars(HeartDone)
  /\ WF_vars(Tick(timeout))
  /\ \A i \in Ids : WF_vars(PullLoop(i)) /\ WF_vars(DoSelect(i))
                     /\ WF_vars(DoTimeout(i)) /\ WF_vars(DoDelete(i))

\* ------------------------------------------------------- concurrent Close
\* Several tasks call Close on one polling tunnel at the same time, their
\* steps interleaved; the heartbeat task, the lifecycle goroutine of the server
\* tunnel and the target run beside them.
NextClose ==
  \/ ClientConnect(PollInterval, "up")
  \/ \E t \in Closers : CloseLock(t)
  \/ \E t \in Closers : CloseRead(t)
  \/ \E t \in Closers : CloseUnlock(t)
  \/ \E t \in Closers : CloseSignal(t)
  \/ \E t \in Closers : CloseQuit(t)
  \/ AliveReturn
  \/ \E i \in Ids : DoSelect(i)
  \/ \E i \in Ids : DoDelete(i)
  \/ \E i \in Ids : TargetSend(i)
  \/ \E i \in Ids : TargetClose(i)

SpecClose == Init /\ [][NextClose]_vars

\* ------------------------------------------------------ the authenticator
\* An HMACAuthenticator signs a data string and verifies candidate
\* signatures for it: the signature itself, its truncations, the signatures of
\* other data and of other secrets, and a string that is no signature.  The
\* digest stands for itself: different (key, data) give different digests.
Secrets == {ServerSecret, "54321", "test-secret"}
Datas == {<<"0">>, <<"1", "0">>, <<"x">>, <<>>}
Candidates(secret, data) ==
  {Sign(secret, d) : d \in Datas}
  \cup {Sign(k, data) : k \in Secrets}
  \cup {SubSeq(Sign(secret, data), 1, n) : n \in 0 .. Len(Sign(secret, data)) - 1}
  \cup {<<"invalid-signature">>}

InitSign ==
  /\ proxyMap = {}
  /\ conns = [i \in Ids |-> NilConn]
  /\ minted = 0
  /\ pull = [i \in Ids |-> FALSE]
  /\ push = [i \in Ids |-> NoPush]
  /\ down = [i \in Ids |-> <<>>]
  /\ closedFor = [i \in Ids |-> -1]
  /\ closedBy = [i \in Ids |-> "none"]
  /\ heartGap = [i \in Ids |-> 0]
  /\ onTime = [i \in Ids |-> 0]
  /\ c = NilClient
  /\ \E k \in Secrets : \E data \in Datas :
        reply = [step |-> "new", secret |-> k, data |-> data, signature |-> <<>>,
                 candidate |-> <<>>, ok |-> FALSE]

DoSign ==
  /\ reply.step = "new"
  /\ reply' = [reply EXCEPT !.step = "signed", !.signature = Sign(reply.secret, reply.data)]
  /\ UNCHANGED <<server, observers, c>>

DoVerify(s) ==
  /\ reply.step = "signed"
  /\ reply' = [reply EXCEPT !.step = "verified", !.candidate = s,
                            !.ok = Verify(reply.secret, reply.data, s)]
  /\ UNCHANGED <<server, observers, c>>

NextSign ==
  \/ DoSign
  \/ \E s \in Candidates(reply.secret, reply.data) : DoVerify(s)

SpecSign == InitSign /\ [][NextSign]_vars

\* ---------------------------------------------------------------- C11
\* the first Close of the client has returned, its quit push answered
CloseAnswered == c.ret.op = "Close" /\ c.closes = 1 /\ c.ret.status # 0 /\ c.uuid \in Ids

C12_InsertBeforeReply ==
  [][c.stage = "new" /\ c'.stage \in {"ready", "pulling"} =>
       /\ c'.uuid \in proxyMap'
       /\ ~IsClosed(conns'[c'.uuid])
       /\ conns'[c'.uuid].remote = "open"]_vars

\* the client has just received an id, and the id is registered and unclosed
C12_Witness ==
  /\ c.stage = "ready" /\ c.ret = NoRet /\ c.uuid \in proxyMap
  /\ ~IsClosed(conns[c.uuid])

\* ---------------------------------------------------------------- C13
\* a streaming Read has returned io.EOF to the reader of a tunnel the client closed
ReaderDone == c.interval = 0 /\ c.stage = "ready" /\ c.source = "nil"

\* C13 as stated: in streaming mode, once the client has called Close, the
\* reader has received every byte the target had sent before the close when
\* Read returns end-of-stream.
C13_AsStated == ReaderDone /\ c.closed => Len(c.got) >= c.owed

\* C13: in streaming mode, after the client calls Close the reader's loop
\* ends: Read returns io.EOF, no other error.  What the reader has received by
\* then are the bytes the handler of /pull had read from the target; the bytes
\* that had arrived from the target and were not yet read when Do closed the
\* connection are the only ones missing.
C13_ReaderEnds ==
  /\ [](ReaderDone /\ c.closed =>
          down[c.uuid] = <<>> /\ Len(c.got) + Len(conns[c.uuid].rx) >= c.owed)
  /\ [][c.interval = 0 /\ c.source = "open" /\ c'.source = "nil" =>
          c'.ret.op = "Read" /\ c'.ret.err = ErrEOF]_vars
  /\ (c.interval = 0 /\ c.closed /\ c.source = "open") ~> ReaderDone

\* the client has closed, and the reader has received a byte of the target and
\* then end-of-stream
C13_Witness ==
  /\ ReaderDone /\ c.closed /\ c.owed > 0 /\ Len(c.got) = c.owed
  /\ c.ret.op = "Read" /\ c.ret.err = ErrEOF

\* ---------------------------------------------------------------- C14
\* a Read in polling mode has returned an error
PollingReadFailed == c.interval > 0 /\ c.ret.op = "Read" /\ c.ret.err # NoErr

\* C14: in polling mode Read never returns io.EOF, and it returns an error
\* only once the server tunnel is closed or unregistered, when none of the
\* bytes that arrived from the target is left unreturned.
C14_AsStated ==
  /\ c.interval > 0 /\ c.ret.op = "Read" => c.ret.err # ErrEOF
  /\ PollingReadFailed =>
        \/ c.uuid \notin proxyMap
        \/ IsClosed(conns[c.uuid]) /\ conns[c.uuid].rx = <<>>

\* ---------------------------------------------------------------- C15
\* C15: the closed flag of a server tunnel, once set, stays set, and from then
\* on every authenticated /pull or /push on its id is answered 500 "remote conn
\* is closed" while the id is registered and 500 "uuid don't exist" after its
\* removal, and changes nothing: no byte is read from or written to the
\* target, and heart is not signalled.
C15_ClosedStaysClosed ==
  /\ [](\A i \in Minted :
          conns[i].hasClosed =>
            \A r \in RequestsOn(i) :
              Route(r, 0) = Out(HTTPError(IF i \in proxyMap THEN "remote conn is closed"
                                          ELSE "uuid don't exist"), State))
  /\ [][\A i \in Ids : conns[i].hasClosed => conns'[i].hasClosed]_vars

\* a registered tunnel has its flag set while its target connection is open
\* with bytes of the target to read
C15_Witness ==
  \E i \in proxyMap :
    conns[i].hasClosed /\ conns[i].remote = "open" /\ conns[i].rx # <<>>

\* ---------------------------------------------------------------- C16
\* C16: the /connect request of a client tunnel carries the UUID header "",
\* every other request carries the id /connect returned, which the server
\* minted, and none is sent before /connect has returned 200.
C16_UUIDHeader ==
  \A q \in c.wire :
    IF q[1] = "/connect" THEN q[2] = 0
    ELSE /\ c.stage \in {"pulling", "ready", "failed"}
         /\ <<"/connect", 0>> \in c.wire
         /\ q[2] = c.uuid /\ q[2] \in Minted

\* the tunnel has sent its /connect, its /pull, a heart push and the quit push
C16_Witness ==
  /\ c.wire = {<<"/connect", 0>>, <<"/pull", c.uuid>>, <<"/push", c.uuid>>}
  /\ c.hearts >= 1 /\ c.quits = 1 /\ c.uuid \in Minted

\* ---------------------------------------------------------------- C17
\* C17: at every moment at most one /pull response body of the tunnel is open
\* on the client, and it is the stored source: Read pulls only when the source
\* is nil, and each body is closed and the source cleared before the next one
\* is stored.
C17_OneSource ==
  /\ c.bodies \in {0, 1}
  /\ c.bodies = 1 <=> c.source = "open"

\* a Read has pulled and stored a body with a byte of the target
C17_Witness ==
  /\ c.interval > 0 /\ c.bodies = 1 /\ c.source = "open"
  /\ c.ret.op = "Read" /\ c.ret.n = 1

C19_CloseOnceConcurrent ==
  /\ c.shut <= 1 /\ c.quits <= 1
  /\ \A t, u \in Closers :
        (c.task[t].at \in {"unlocked", "signalled", "returned"} /\ ~c.task[t].alreadyClosed
         /\ c.task[u].at \in {"unlocked", "signalled", "returned"} /\ ~c.task[u].alreadyClosed)
          => t = u
  /\ (\A t \in Closers : c.task[t].at = "returned") =>
        /\ c.shut = 1 /\ c.quits = 1
        /\ Cardinality({t \in Closers : c.task[t].quit}) = 1

\* all the tasks have returned from Close, the last of them from the quit
\* push, which was answered 200
C19_Witness ==
  /\ \A t \in Closers : c.task[t].at = "returned"
  /\ c.shut = 1 /\ c.quits = 1
  /\ c.ret.op = "Close" /\ c.ret.status = HeadOK

\* ---------------------------------------------------------------- C20
\* C20 as stated: after Close the heartbeat task starts no heart push.
C20_AsStated == c.late = 0

\* seconds since the server tunnel was closed, 0 while it is open
SinceClosed(i) == IF closedFor[i] < 0 THEN 0 ELSE closedFor[i]

\* C20: after Close the heartbeat task starts at most one more heart push (its
\* timer had fired when Close closed the channel) and returns.  Whether the
\* quit push is answered, fails or is lost, the server tunnel is out of the
\* registry, with its target connection closed, no later than heartTTL seconds
\* after the last heart push the server accepted, and the streaming /pull of the
\* tunnel ends with it.
C20_ClosedWithoutQuit ==
  /\ [](c.late <= 1)
  /\ [](\A i \in Minted :
          /\ i \in proxyMap => heartGap[i] + SinceClosed(i) <= heartTTL
          /\ conns[i].life = "done" => i \notin proxyMap /\ conns[i].remote = "closed")
  /\ c.closed ~> (/\ c.alive = "exited"
                  /\ c.uuid \notin proxyMap
                  /\ conns[c.uuid].remote = "closed"
                  /\ ~pull[c.uuid])

\* the quit push was lost, and the server tunnel left the registry heartTTL
\* seconds after the last heart push it accepted, its streaming /pull ended
C20_Witness ==
  /\ c.closed /\ c.ret.op = "Close" /\ c.ret.err # NoErr /\ c.ret.status = 0
  /\ c.hearts >= 1 /\ c.alive = "exited"
  /\ c.uuid \notin proxyMap /\ closedBy[c.uuid] = "timeout" /\ heartGap[c.uuid] = heartTTL
  /\ ~pull[c.uuid]

\* ---------------------------------------------------------------- C21
\* C21: in streaming mode, once the client tunnel is closed and the server
\* tunnel with it (Do has returned and deleted the id, no timer is pending),
\* the goroutine of chunkPush that runs the chunked /push exits in the end,
\* its pipe closed.
C21_AsStated ==
  (c.interval = 0 /\ c.closed /\ c.chunk \in {"sent", "copying"} /\ c.uuid \notin proxyMap)
     ~> (c.chunk = "done" /\ c.dst = "closed")

\* ----------------------------------------------------------------- C22
\* C22: once the chunked /push request of a streaming tunnel has ended, the
\* pipe is closed; a Write that was blocked on the pipe at that moment
\* returns, and every Write that returns after that, unless the transport had
\* taken its buffer before, returns zero bytes and an error; a blocked Write
\* always returns in the end.
C22_PipeClosedAfterPush ==
  /\ [](c.chunk = "done" => c.dst = "closed")
  /\ [][(c.chunk = "done" /\ c.wstate # "taken" /\ c'.ret # c.ret /\ c'.ret.op = "Write")
          => (c'.ret.err # NoErr /\ c'.ret.n = 0)]_vars
  /\ (c.chunk = "done" /\ c.wstate = "blocked")
        ~> (c.wstate = "idle" /\ c.ret.op = "Write" /\ c.ret.err # NoErr /\ c.ret.n = 0)
  /\ (c.wstate = "blocked") ~> (c.wstate = "idle")

\* a Write has succeeded, the request has ended, and a Write has failed
C22_Witness ==
  /\ c.chunk = "done" /\ c.wstate = "idle" /\ Len(c.written) = 1
  /\ c.ret = Ret("Write", 0, ErrClosedPipe, 0, FALSE)
\* ----------------------------------------------------------------- C23
\* C23: in streaming mode at most one chunked /push request is ever started
\* for a tunnel, however many Writes are made, and once that request has
\* ended no Write starts another.
C23_OneChunkedPush ==
  /\ [](c.chunks <= 1)
  /\ [][c.chunk = "done" => (c'.chunks = c.chunks /\ c'.chunk = "done")]_vars

\* the one request has ended and a Write made after that has failed
C23_Witness ==
  /\ c.chunks = 1 /\ c.chunk = "done"
  /\ c.ret.op = "Write" /\ c.ret.err = ErrClosedPipe
\* ----------------------------------------------------------------- C24
\* C24 as stated: every operation of the client that depends on a request
\* the server has answered with 500 returns an error: the polling Read or
\* Write and the initial streaming pull, and every streaming Write that went
\* through a chunked push answered with 500.
C24_AsStated ==
  /\ (c.ret.op \in {"Read", "Write"} /\ c.ret.status = HeadError) => c.ret.err # NoErr
  /\ c.pushed = HeadError => c.written = <<>>

\* C24, amended: a polling Read or Write and the initial streaming pull that
\* are answered with 500 return an error; when the chunked push is answered
\* with 500, a Write whose buffer the transport had not read and every later
\* Write return zero bytes and an error; and once such an error has been
\* returned the frontend closes the accepted socket.
C24_ErrorThenSockClosed ==
  /\ []((c.ret.op \in {"Read", "Write"} /\ c.ret.status = HeadError)
          => (c.ret.err # NoErr /\ c.ret.n = 0))
  /\ [][(c.stage = "pulling" /\ c'.stage = "ready") => pull'[c.uuid]]_vars
  /\ [][(c.pushed = HeadError /\ c.wstate # "taken" /\ c'.ret # c.ret /\ c'.ret.op = "Write")
          => (c'.ret.err # NoErr /\ c'.ret.n = 0)]_vars
  /\ (\/ c.ret.op \in {"Read", "Write"} /\ c.ret.status = HeadError
      \/ c.pushed = HeadError /\ c.ret.op = "Write" /\ c.ret.err # NoErr)
        ~> SockClosed

\* the chunked push was answered with 500 after the first Write had succeeded,
\* a later Write has failed, and the frontend has closed the socket
C24_Witness ==
  /\ c.pushed = HeadError /\ Len(c.written) = 1 /\ c.fup /\ SockClosed
\* ----------------------------------------------------------------- C25
\* C25: in polling mode, the bytes the handler of /pull takes from the target
\* into its 200 response are returned by the Read that made the request, in
\* order: the end of the round trip does not discard them.
C25_AsStated ==
  [][\A i \in Ids :
       (c.interval > 0 /\ conns[i].rx # <<>> /\ conns'[i].rx = <<>>)
          => (c'.got = c.got \o conns[i].rx /\ c'.ret.err = NoErr)]_vars
C27_NoRepull ==
  /\ []((c.interval = 0 /\ c.stage = "ready" /\ c.ret.op = "Read" /\ c.ret.err # NoErr)
          => (c.source = "nil" /\ c.bodies = 0))
  /\ [][(c.interval = 0 /\ c.stage = "ready" /\ c.source = "nil"
            /\ c'.ret.op = "Read" /\ c'.ret # c.ret)
          => /\ c'.ret = Ret("Read", 0, Err("pull http connection is not ready", 0, ""), 0, FALSE)
             /\ c'.source = "nil" /\ c'.bodies = 0 /\ c'.wire = c.wire
             /\ UNCHANGED server]_vars

\* Read has returned io.EOF and the next Read the error of the missing source
C27_Witness ==
  /\ c.interval = 0 /\ c.source = "nil" /\ c.bodies = 0 /\ c.got # <<>>
  /\ c.ret = Ret("Read", 0, Err("pull http connection is not ready", 0, ""), 0, FALSE)
\* ----------------------------------------------------------------- C28
\* C28: a polling /pull on an open, registered tunnel answers 200.  When the
\* target has sent nothing and its connection is open, the read times out: the
\* body is empty and nothing of the server changes, neither the closed flag
\* nor the registry nor the timer of Do.  When the connection has ended, the
\* read fails: the body is empty and the tunnel is closed, still registered.
\* When bytes are there, they are taken into the response and nothing else
\* changes; the error that follows them closes the tunnel at the next pull.
C28_TimeoutLeavesOpen ==
  [][(/\ c.interval > 0 /\ NeedsPull(c) /\ c'.ret # c.ret /\ c'.ret.op = "Read"
      /\ c.uuid \in proxyMap /\ ~IsClosed(conns[c.uuid]))
     => /\ c'.ret.status = HeadOK
        /\ proxyMap' = proxyMap
        /\ LET pc == conns[c.uuid]
           IN IF pc.remote = "open" /\ pc.rx # <<>>
              THEN /\ conns' = [conns EXCEPT ![c.uuid].rx = <<>>]
                   /\ c'.got \in {c.got, c.got \o pc.rx}
              ELSE IF pc.remote = "open" /\ pc.peer = "open"
              THEN c'.ret.n = 0 /\ c'.ret.err = NoErr /\ UNCHANGED <<server, observers>>
              ELSE /\ c'.ret.n = 0
                   /\ IsClosed(conns'[c.uuid])
                   /\ \A i \in Ids \ {c.uuid} : conns'[i] = conns[i]]_vars

\* a pull has timed out: Read has returned nothing and no error, the target
\* has sent nothing, and the tunnel is open and registered
C28_Witness ==
  /\ c.interval > 0 /\ c.ret = Ret("Read", 0, NoErr, HeadOK, TRUE)
  /\ c.uuid \in proxyMap /\ ~IsClosed(conns[c.uuid])
  /\ conns[c.uuid].peer = "open" /\ conns[c.uuid].sent = 0
\* ----------------------------------------------------------------- C29
\* C29: in every state of a registered tunnel whose closed flag is not set,
\* whether Do has not yet entered its select, waits in it, or has returned, a
\* heart push and a quit push are answered 200: Heart and Close return.  A
\* Do that waits takes the signal: after heart it arms its timer again, after
\* close it returns and the target connection is closed.  Otherwise the signal
\* is dropped: heart changes nothing, and close only sets the closed flag.
C29_SignalsNeverBlock ==
  \A i \in proxyMap :
    ~IsClosed(conns[i]) =>
      LET pc == conns[i]
          h == handlePush(Req("/push", genSign(0, ServerSecret), i, "heart", <<>>, "", FALSE, <<>>), 0)
          q == handlePush(Req("/push", genSign(0, ServerSecret), i, "quit", <<>>, "", FALSE, <<>>), 0)
      IN /\ h.resp.status = HeadOK /\ q.resp.status = HeadOK
         /\ h.st.proxyMap = proxyMap /\ q.st.proxyMap = proxyMap
         /\ \A j \in Ids \ {i} : h.st.conns[j] = conns[j] /\ q.st.conns[j] = conns[j]
         /\ IF pc.life = "select"
            THEN /\ h.st.conns[i] = [pc EXCEPT !.life = "loop"]
                 /\ q.st.conns[i] = [pc EXCEPT !.hasClosed = TRUE, !.life = "exited",
                                               !.remote = "closed", !.timer = 0]
            ELSE /\ h.st.conns[i] = pc
                 /\ q.st.conns[i] = [pc EXCEPT !.hasClosed = TRUE]

\* Do has returned at its timeout, and a quit push has then set the closed flag
\* of the tunnel, which is still registered
C29_Witness ==
  \E i \in proxyMap :
    conns[i].life = "exited" /\ conns[i].hasClosed /\ closedBy[i] = "timeout"
\* ----------------------------------------------------------------- C30
\* C30: after setup, handleConn returns only once a copy has finished, and
\* then it does: it calls Close of the tunnel, once, and closes the socket.
\* After that the other copy finishes too, and errChan, which holds two
\* results, takes the result of each copy without making it wait.
C30_FirstResultClosesBoth ==
  /\ [](c.stage = "ready" /\ c.closes >= 1 => c.results >= 1)
  /\ [](c.closes <= 1 /\ c.quits <= 1)
  /\ [](c.results <= 2)
  /\ [](c.results = (IF c.fdown THEN 1 ELSE 0) + (IF c.fup THEN 1 ELSE 0))
  /\ (c.results >= 1)
        ~> (c.closes = 1 /\ c.closed /\ SockClosed /\ c.fdown /\ c.fup /\ c.results = 2)

\* both copies have finished after handleConn has returned with one Close
C30_Witness ==
  c.stage = "ready" /\ c.closes = 1 /\ c.fdown /\ c.fup /\ c.results = 2

\* ------------------------------------------------- the frontend handshake
\* LocalServer.handleConn up to the call of transport.  A string is the
\* sequence of its characters, a socket's input the sequence of the segments
\* its reads return, the end of the sequence the end of the stream.

\* appendHex of net.IP.String: lower case, no leading zeros
RECURSIVE FormatHex(_)
FormatHex(n) ==
  LET HexChar(d) == IF d < 10 THEN DigitChar(d)
                    ELSE CASE d = 10 -> "a" [] d = 11 -> "b" [] d = 12 -> "c"
                           [] d = 13 -> "d" [] d = 14 -> "e" [] d = 15 -> "f"
  IN IF n < 16 THEN <<HexChar(n)>> ELSE FormatHex(n \div 16) \o <<HexChar(n % 16)>>

\* net.IP(b).String(): four bytes, and sixteen bytes that hold an IPv4-mapped
\* address, in dotted decimal; other sixteen bytes as eight groups in hex, the
\* first longest run of two or more zero groups written "::"
IPString(ip) ==
  LET Dotted(p) == FormatInt(p[1]) \o <<".">> \o FormatInt(p[2]) \o <<".">>
                   \o FormatInt(p[3]) \o <<".">> \o FormatInt(p[4])
      mapped == /\ Len(ip) = 16
                /\ \A i \in 1 .. 10 : ip[i] = 0
                /\ ip[11] = 255 /\ ip[12] = 255
      g == [i \in 1 .. 8 |-> 256 * ip[2 * i - 1] + ip[2 * i]]
      Run[i \in 1 .. 9] == IF i = 9 THEN 0 ELSE IF g[i] # 0 THEN 0 ELSE 1 + Run[i + 1]
      starts == {i \in 1 .. 8 : /\ Run[i] >= 2
                                /\ \A j \in 1 .. 8 : Run[j] <= Run[i]
                                /\ \A j \in 1 .. i - 1 : Run[j] < Run[i]}
      e0 == IF starts = {} THEN 0 ELSE CHOOSE i \in starts : TRUE
      e1 == IF e0 = 0 THEN 0 ELSE e0 + Run[e0]
      Emit[i \in 1 .. 9] ==
        IF i = 9 THEN <<>>
        ELSE IF i = e0
        THEN <<":", ":">> \o (IF e1 > 8 THEN <<>> ELSE FormatHex(g[e1]) \o Emit[e1 + 1])
        ELSE (IF i > 1 THEN <<":">> ELSE <<>>) \o FormatHex(g[i]) \o Emit[i + 1]
  IN IF Len(ip) = 4 THEN Dotted(ip)
     ELSE IF mapped THEN Dotted(SubSeq(ip, 13, 16))
     ELSE Emit[1]

\* net.JoinHostPort: a host that holds a colon or a percent sign is bracketed
JoinHostPort(host, port) ==
  IF \E i \in 1 .. Len(host) : host[i] \in {":", "%"}
  THEN <<"[">> \o host \o <<"]", ":">> \o port
  ELSE host \o <<":">> \o port

\* strings.Split(s, sep) for a separator of one character
RECURSIVE Split(_, _)
Split(s, sep) ==
  IF \A i \in 1 .. Len(s) : s[i] # sep THEN <<s>>
  ELSE LET k == CHOOSE i \in 1 .. Len(s) : s[i] = sep /\ \A j \in 1 .. i - 1 : s[j] # sep
       IN <<SubSeq(s, 1, k - 1)>> \o Split(SubSeq(s, k + 1, Len(s)), sep)

\* io.ReadAtLeast(conn, buf, min) into a buffer of size bytes that holds got
\* already: reads until min bytes are there; a read returns what one segment
\* holds, as far as the buffer has room.  io.ReadFull is ReadAtLeast with
\* min = size
RECURSIVE ReadAtLeast(_, _, _, _)
ReadAtLeast(segs, got, min, size) ==
  IF Len(got) >= min THEN [buf |-> got, rest |-> segs, err |-> ""]
  ELSE IF segs = <<>>
  THEN [buf |-> got, rest |-> segs, err |-> IF got = <<>> THEN "EOF" ELSE "unexpected EOF"]
  ELSE LET k == Min(Len(Head(segs)), size - Len(got))
           left == SubSeq(Head(segs), k + 1, Len(Head(segs)))
       IN ReadAtLeast(IF left = <<>> THEN Tail(segs) ELSE <<left>> \o Tail(segs),
                      got \o SubSeq(Head(segs), 1, k), min, size)

reqLen_lenient(buf) ==
  CASE buf[4] = 4 -> 16 + 6
    [] buf[4] = 3 -> buf[5] + 7
    [] OTHER -> 4 + 6

\* the length of a SOCKS5 request by its address type, -1 for a type that is
\* none of typeIPv4, typeDm, typeIPv6
reqLen(buf) ==
  CASE buf[4] = 1 -> 4 + 6
    [] buf[4] = 4 -> 16 + 6
    [] buf[4] = 3 -> buf[5] + 7
    [] OTHER -> -1

\* handleConn has returned err before it called Connect, after it wrote
\* bytes and lines to the accepted socket
Refused(err, bytes, lines) ==
  [err |-> err, bytes |-> bytes, lines |-> lines, call |-> FALSE, proto |-> "",
   host |-> <<>>, port |-> 0, addr |-> <<>>]

\* handleConn up to its call of Connect(addr), for the flags fl, the input
\* segs of the accepted socket and what http.ReadRequest makes of that input
handleConn(fl, segs, req) ==
  LET first == ReadAtLeast(segs, <<>>, 2, 258)
  IN IF first.err # "" THEN Refused(first.err, <<>>, <<>>)
     ELSE IF first.buf[1] = 5
     THEN IF fl.DisableSocks5 THEN Refused("protocol not supported", <<>>, <<>>)
          ELSE LET n == Len(first.buf)
                   msgLen == first.buf[2] + 2
                   more == IF n < msgLen THEN ReadAtLeast(first.rest, <<>>, msgLen - n, msgLen - n)
                           ELSE [buf |-> <<>>, rest |-> first.rest, err |-> ""]
                   second == ReadAtLeast(more.rest, <<>>, 5, 263)
                   buf == second.buf
                   m == Len(buf)
                   tail == IF m < reqLen(buf)
                           THEN ReadAtLeast(second.rest, <<>>, reqLen(buf) - m, reqLen(buf) - m)
                           ELSE [buf |-> <<>>, rest |-> second.rest, err |-> ""]
                   whole == buf \o tail.buf
                   \* string(b) for the bytes the names of the model are made of
                   Chr(b) == CASE b = 46 -> "." [] b = 58 -> ":" [] b = 97 -> "a"
                               [] b = 98 -> "b" [] OTHER -> "?"
                   host == CASE buf[4] = 3 -> [i \in 1 .. buf[5] |-> Chr(whole[5 + i])]
                             [] buf[4] = 4 -> IPString(SubSeq(whole, 5, 20))
                             [] OTHER -> IPString(SubSeq(whole, 5, 8))
                   port == 256 * whole[reqLen(buf) - 1] + whole[reqLen(buf)]
               IN IF n > msgLen THEN Refused("socks authentication get extra data", <<>>, <<>>)
                  ELSE IF more.err # "" THEN Refused(more.err, <<>>, <<>>)
                  ELSE IF second.err # "" THEN Refused(second.err, <<5, 0>>, <<>>)
                  ELSE IF buf[1] # 5 THEN Refused("socks version not supported", <<5, 0>>, <<>>)
                  ELSE IF buf[2] # 1 THEN Refused("socks command not supported", <<5, 0>>, <<>>)
                  ELSE IF reqLen(buf) = -1
                  THEN Refused("socks addr type not supported", <<5, 0>>, <<>>)
                  ELSE IF m > reqLen(buf)
                  THEN Refused("socks request get extra data", <<5, 0>>, <<>>)
                  ELSE IF tail.err # "" THEN Refused(tail.err, <<5, 0>>, <<>>)
                  ELSE [err |-> "", bytes |-> <<5, 0>>, lines |-> <<>>, call |-> TRUE,
                        proto |-> "socks5", host |-> host, port |-> port,
                        addr |-> JoinHostPort(host, FormatInt(port))]
     ELSE IF fl.DisableHTTP THEN Refused("protocol not supported", <<>>, <<>>)
     ELSE IF req.err # "" THEN Refused(req.err, <<>>, <<>>)
     ELSE IF req.Method = "CONNECT" /\ fl.DisableHTTPCONNECT
     THEN Refused("protocol not supported", <<>>, <<"HTTP/1.1 502 Connection refused">>)
     ELSE IF req.Method = "PRI" /\ req.ProtoMajor = 2
     THEN Refused("not supported now", <<>>, <<"HTTP/1.1 400 Bad Request">>)
     ELSE [err |-> "", bytes |-> <<>>, lines |-> <<>>, call |-> TRUE,
           proto |-> IF req.Method = "CONNECT" THEN "connect" ELSE "http",
           host |-> <<>>, port |-> 0,
           addr |-> IF \E i \in 1 .. Len(req.Host) : req.Host[i] = ":"
                    THEN req.Host ELSE req.Host \o <<":", "8", "0">>]

\* a connection is accepted: handleConn starts with the socket open and
\* nothing written.  What applications send to the accepted socket, with the
\* flags of the server: SOCKS5 greetings and requests in one segment or more,
\* with and without bytes too many, and HTTP requests as http.ReadRequest
\* returns them
InitHello ==
  LET Flags == [DisableSocks5 : BOOLEAN, DisableHTTP : BOOLEAN, DisableHTTPCONNECT : BOOLEAN]
      NoReq == [err |-> "malformed HTTP request", Method |-> "", ProtoMajor |-> 0, Host |-> <<>>]
      Greetings == {<< <<5, 1, 0>> >>, << <<5, 1, 0, 5>> >>, << <<5, 2, 0>>, <<2>> >>}
      Addrs == {<<1, 127, 0, 0, 1>>, <<1, 10, 0, 0, 2>>, <<2, 127, 0, 0, 1>>,
                <<3, 3, 97, 46, 98>>,
                <<4, 0, 0, 0, 0, 0, 0, 0, 0, 0, 0, 0, 0, 0, 0, 0, 1>>,
                <<4, 32, 1, 13, 184, 0, 0, 0, 0, 0, 0, 0, 0, 0, 0, 0, 1>>,
                <<4, 0, 1, 0, 0, 0, 0, 0, 2, 0, 0, 0, 0, 0, 0, 0, 3>>,
                <<4, 0, 0, 0, 0, 0, 0, 0, 0, 0, 0, 255, 255, 10, 0, 0, 2>>}
      Ports == {<<0, 80>>, <<1, 187>>}
      Bodies5 == {<<ver, cmd, 0>> \o a \o p : ver \in {4, 5}, cmd \in {1, 2}, a \in Addrs, p \in Ports}
      Shapes(b) == {<<b>>, <<SubSeq(b, 1, 5), SubSeq(b, 6, Len(b))>>, <<b \o <<0>> >>,
                    <<SubSeq(b, 1, 6)>>}
      Https == {[err |-> "", Method |-> m, ProtoMajor |-> v, Host |-> h] :
                  m \in {"CONNECT", "GET", "PRI"}, v \in {1, 2},
                  h \in {<<"a", ".", "b">>, <<"a", ".", "b", ":", "4", "4", "3">>}}
      HelloInputs ==
        {[fl |-> fl, segs |-> g \o sh, req |-> NoReq] :
           fl \in Flags, g \in Greetings, sh \in UNION {Shapes(b) : b \in Bodies5}}
        \cup {[fl |-> fl, segs |-> sg, req |-> NoReq] : fl \in Flags, sg \in {<< <<5>> >>, << <<5, 2, 0>> >>, << <<5, 1, 0>> >>, << <<71, 69>> >>}}
        \cup {[fl |-> fl, segs |-> << <<71, 69>> >>, req |-> q] : fl \in Flags, q \in Https}
  IN
  /\ proxyMap = {}
  /\ conns = [i \in Ids |-> NilConn]
  /\ minted = 0
  /\ pull = [i \in Ids |-> FALSE]
  /\ push = [i \in Ids |-> NoPush]
  /\ down = [i \in Ids |-> <<>>]
  /\ closedFor = [i \in Ids |-> -1]
  /\ closedBy = [i \in Ids |-> "none"]
  /\ heartGap = [i \in Ids |-> 0]
  /\ onTime = [i \in Ids |-> 0]
  /\ c = NilClient
  /\ \E in \in HelloInputs :
        reply = [in |-> in, stage |-> "accepted", sock |-> "open", opens |-> 0,
                 DSTHOST |-> <<>>, DSTPORT |-> <<>>,
                 h |-> Refused("", <<>>, <<>>)]

\* handleConn reads and answers until it returns an error, the deferred
\* conn.Close() closing the socket, or calls Connect(addr)
FrontHello ==
  /\ reply.stage = "accepted"
  /\ \E h \in {handleConn(reply.in.fl, reply.in.segs, reply.in.req)} :
        reply' = IF h.call THEN [reply EXCEPT !.h = h, !.stage = "open"]
                 ELSE [reply EXCEPT !.h = h, !.stage = "returned", !.sock = "closed"]
  /\ UNCHANGED <<server, observers, c>>

\* Client.Connect(addr) splits addr at the colons and, given two parts, goes
\* on to connect(host, port), which sets DSTHOST and DSTPORT
FrontOpen ==
  /\ reply.stage = "open"
  /\ LET parts == Split(reply.h.addr, ":")
     IN IF Len(parts) # 2
        THEN /\ reply' = [reply EXCEPT !.opens = @ + 1, !.stage = "returned", !.sock = "closed",
                                       !.h.err = "invalid address format: %s"]
             /\ UNCHANGED c
        ELSE /\ reply' = [reply EXCEPT !.opens = @ + 1, !.stage = "connecting",
                                       !.DSTHOST = parts[1], !.DSTPORT = parts[2]]
             /\ c' = [c EXCEPT !.front = TRUE]
  /\ UNCHANGED <<server, observers>>

FrontReply_always ==
  /\ reply.stage = "connecting"
  /\ c.stage \in {"ready", "failed"}
  /\ reply' = [reply EXCEPT
                 !.stage = IF c.stage = "failed" THEN "returned" ELSE "transport",
                 !.sock = IF c.stage = "failed" THEN "closed" ELSE @,
                 !.h.err = IF c.stage = "failed" THEN "connect %s: %w" ELSE @,
                 !.h.bytes = IF reply.h.proto = "socks5"
                             THEN @ \o <<5, 0, 0, 1, 0, 0, 0, 0, 8, 67>> ELSE @,
                 !.h.lines = IF reply.h.proto = "connect"
                             THEN @ \o <<"HTTP/1.1 200 Connection established">> ELSE @]
  /\ UNCHANGED <<server, observers, c>>

\* Connect has returned: on an error handleConn returns it; else it writes
\* the reply of its protocol, or has the request to forward, and goes on to
\* transport
FrontReply ==
  /\ reply.stage = "connecting"
  /\ c.stage \in {"ready", "failed"}
  /\ reply' = IF c.stage = "failed"
              THEN [reply EXCEPT !.stage = "returned", !.sock = "closed",
                                 !.h.err = "connect %s: %w"]
              ELSE [reply EXCEPT
                      !.stage = IF reply.h.proto = "http" THEN "forward" ELSE "transport",
                      !.h.bytes = IF reply.h.proto = "socks5"
                                  THEN @ \o <<5, 0, 0, 1, 0, 0, 0, 0, 8, 67>> ELSE @,
                      !.h.lines = IF reply.h.proto = "connect"
                                  THEN @ \o <<"HTTP/1.1 200 Connection established">> ELSE @]
  /\ UNCHANGED <<server, observers, c>>

NextHello ==
  \/ FrontHello
  \/ FrontOpen
  \/ \E dst \in {"up", "down"} : c.front /\ ClientConnect(0, dst)
  \/ \E dst \in {"up", "down"} : c.front /\ ClientConnect(PollInterval, dst)
  \/ ClientOpenPull
  \/ ClientOpenPullLost
  \/ FrontReply
  \/ reply.stage = "forward" /\ c.ret.op # "Write" /\ PollingWrite(NextBuffer)
  \/ reply.stage = "forward" /\ c.ret.op # "Write" /\ StreamingWrite(NextBuffer)
  \/ ChunkTake
  \/ WriteReturn

SpecHello == InitHello /\ [][NextHello]_vars

\* ----------------------------------------------------------------- C31
\* C31: on each refusal path of the frontend (SOCKS5 disabled, HTTP
\* disabled, CONNECT disabled, bytes too many after the method negotiation, a
\* request whose version is not 5, whose command is not CONNECT, whose address
\* type is unknown, bytes too many after the request, the HTTP/2 preface PRI)
\* handleConn returns the error of that path, Connect of the tunnel is not
\* called, no request goes to the server, and the accepted socket is closed.
C31_RefusalPaths ==
  LET in == reply.in
      s == in.segs
      first == s[1]
      socks == Len(first) >= 2 /\ first[1] = 5 /\ ~in.fl.DisableSocks5
      http == Len(first) >= 2 /\ first[1] # 5 /\ ~in.fl.DisableHTTP /\ in.req.err = ""
      msgLen == first[2] + 2
      \* the segment the request starts in, when the greeting ends with a segment
      Before[k \in 1 .. Len(s) + 1] == IF k = 1 THEN 0 ELSE Before[k - 1] + Len(s[k - 1])
      starts == {k \in 1 .. Len(s) : Before[k] = msgLen /\ Len(s[k]) >= 5}
      rq == s[CHOOSE k \in starts : TRUE]
      asked == socks /\ Len(first) <= msgLen /\ starts # {}
      wellTyped == rq[1] = 5 /\ rq[2] = 1 /\ rq[4] \in {1, 3, 4}
      length == CASE rq[4] = 1 -> 10 [] rq[4] = 4 -> 22 [] rq[4] = 3 -> 7 + rq[5]
      refused(kind) ==
        /\ reply.stage = "returned" /\ reply.h.err = kind
        /\ reply.opens = 0 /\ c.wire = {} /\ c.stage = "new"
        /\ reply.sock = "closed"
  IN reply.stage # "accepted" =>
       /\ (Len(first) >= 2 /\ first[1] = 5 /\ in.fl.DisableSocks5)
             => refused("protocol not supported")
       /\ (Len(first) >= 2 /\ first[1] # 5 /\ in.fl.DisableHTTP)
             => refused("protocol not supported")
       /\ (http /\ in.req.Method = "CONNECT" /\ in.fl.DisableHTTPCONNECT)
             => refused("protocol not supported")
       /\ (socks /\ Len(first) > msgLen) => refused("socks authentication get extra data")
       /\ (asked /\ rq[1] # 5) => refused("socks version not supported")
       /\ (asked /\ rq[1] = 5 /\ rq[2] # 1) => refused("socks command not supported")
       /\ (asked /\ rq[1] = 5 /\ rq[2] = 1 /\ rq[4] \notin {1, 3, 4})
             => refused("socks addr type not supported")
       /\ (asked /\ wellTyped /\ Len(rq) > length) => refused("socks request get extra data")
       /\ (http /\ ~(in.req.Method = "CONNECT" /\ in.fl.DisableHTTPCONNECT)
                /\ in.req.Method = "PRI" /\ in.req.ProtoMajor = 2)
             => refused("not supported now")

\* a well-typed SOCKS5 request that came with a byte too many has been refused
C31_Witness ==
  /\ reply.stage = "returned"
  /\ reply.h.err = "socks request get extra data"
  /\ reply.sock = "closed"
  /\ reply.opens = 0

\* ----------------------------------------------------------------- C32
\* C32: the SOCKS5 success reply 05 00 00 01 00 00 00 00 08 43 and the line
\* "HTTP/1.1 200 Connection established" are on the accepted socket only
\* when Connect of the tunnel has been called and has returned a tunnel; when
\* Connect has failed, nothing but the echo 05 00 of the method negotiation
\* has been written and the accepted socket is closed.
C32_ReplyAfterOpen ==
  LET echo == IF reply.h.proto = "socks5" THEN <<5, 0>> ELSE <<>>
      established == \E i \in 1 .. Len(reply.h.lines) :
                        reply.h.lines[i] = "HTTP/1.1 200 Connection established"
      opened == reply.opens = 1 /\ c.stage = "ready" /\ c.uuid \in Ids
  IN /\ (Len(reply.h.bytes) > 2 \/ established) => opened
     /\ Len(reply.h.bytes) > 2
           => reply.h.proto = "socks5" /\ reply.h.bytes = <<5, 0, 5, 0, 0, 1, 0, 0, 0, 0, 8, 67>>
     /\ established => reply.h.proto = "connect" /\ Len(reply.h.lines) = 1
     /\ (reply.stage = "transport" /\ reply.h.proto = "socks5") => Len(reply.h.bytes) > 2
     /\ (reply.stage = "transport" /\ reply.h.proto = "connect") => established
     /\ (reply.opens = 1 /\ (reply.stage = "returned" \/ c.stage = "failed"))
           => /\ reply.h.bytes = echo /\ reply.h.lines = <<>>
              /\ reply.stage = "returned" => reply.sock = "closed"
     /\ (reply.opens = 1 /\ c.stage = "failed") => reply.stage \in {"connecting", "returned"}

\* Connect has failed after the server had made the tunnel, and handleConn
\* has returned
C32_Witness ==
  /\ reply.stage = "returned"
  /\ reply.opens = 1
  /\ reply.h.proto = "socks5"
  /\ c.stage = "failed"
  /\ c.uuid \in Ids
  /\ reply.sock = "closed"

\* ----------------------------------------------------------------- C33
\* C33: for a well-formed SOCKS5 CONNECT request of any of the three address
\* types, once handleConn has called Connect and Connect has gone as far as
\* it goes, the client has issued /connect with DSTHOST the decoded host and
\* DSTPORT the decoded port in decimal.
C33_AsStated ==
  (reply.h.call /\ reply.h.proto = "socks5" /\ reply.stage \in {"transport", "returned"})
    => /\ <<"/connect", 0>> \in c.wire
       /\ reply.DSTHOST = reply.h.host
       /\ reply.DSTPORT = FormatInt(reply.h.port)

\* ----------------------------------------------------------------- C34
\* C34: in polling mode a Write that returns (len(b), nil) has had its bytes
\* written to the target socket: the data /push it made was answered 200 by a
\* handler whose copy wrote to the open connection of the tunnel.
C34_AsStated ==
  [][(c'.ret # c.ret /\ c'.ret.op = "Write" /\ c'.ret.err = NoErr /\ c'.ret.n > 0)
       => (c.uuid \in Ids /\ conns[c.uuid].remote = "open")]_vars

\* ----------------------------------------------------------------- C35
\* C35: whenever the target connection of a server tunnel has been closed by
\* its lifecycle goroutine, the closed flag of the tunnel is set or its id is
\* out of the registry: no registered tunnel has IsClosed false and its
\* socket released.
C35_AsStated ==
  \A i \in Minted :
    conns[i].remote = "closed" => (IsClosed(conns[i]) \/ i \notin proxyMap)

\* ----------------------------------------------------------------- C36
\* C36: the timer of Do is reset by heart pushes only.  While a tunnel is
\* open and Do waits, its timer shows the seconds since /connect or the last
\* heart push, whatever data pushes and /pull requests the tunnel has served
\* since; so it never lives more than heartTTL seconds past that moment, and
\* a tunnel the timer has ended is deleted from the registry before time
\* goes on.
C36_OnlyHeartResets ==
  \A i \in Minted :
    /\ (conns[i].life = "select" /\ closedFor[i] < 0) => conns[i].timer = heartGap[i]
    /\ closedFor[i] < 0 => heartGap[i] <= heartTTL
    /\ closedBy[i] = "timeout" =>
          /\ closedFor[i] = 0
          /\ conns[i].remote = "closed"
          /\ conns[i].life = "done" <=> i \notin proxyMap

\* a tunnel that served a data push has been ended by the timer and deleted
C36_Witness ==
  \E i \in Minted :
    /\ closedBy[i] = "timeout" /\ i \notin proxyMap
    /\ conns[i].tx # <<>>

\* ----------------------------------------------------------------- C37
\* C37: when /connect has succeeded and the initial streaming /pull fails,
\* Connect returns the error: no quit push is sent and the heartbeat task is
\* not started, so no push at all goes out for the tunnel.  The server tunnel
\* is registered for at most heartTTL seconds from its /connect all the same,
\* and it does get closed and deleted.
C37_FailedPullCleanup ==
  LET failed == c.stage = "failed" /\ c.uuid \in Ids
      gone(i) == /\ i \in Ids /\ i \notin proxyMap
                 /\ conns[i].remote = "closed" /\ conns[i].life = "done"
  IN /\ [](failed => /\ c.quits = 0 /\ c.closes = 0 /\ c.hearts = 0
                     /\ c.alive = "none" /\ c.close = "nil"
                     /\ \A w \in c.wire : w[1] # "/push")
     /\ [](failed /\ c.uuid \in proxyMap
             => heartGap[c.uuid] + (IF closedFor[c.uuid] > 0 THEN closedFor[c.uuid] ELSE 0)
                  <= heartTTL)
     /\ [](failed /\ ~gone(c.uuid) => c.uuid \in proxyMap)
     /\ (failed ~> gone(c.uuid))

\* the pull of Connect has failed, and the tunnel of its /connect has lived
\* heartTTL seconds and is deleted
C37_Witness ==
  /\ c.stage = "failed" /\ c.uuid \in Ids
  /\ c.uuid \notin proxyMap
  /\ closedBy[c.uuid] = "timeout"
  /\ heartGap[c.uuid] = heartTTL

\* ----------------------------------------------------------------- C38
\* C38: whether a protected request passes the pre-check is decided by its
\* timestamp and sign headers, the secret and the server's clock alone.  In
\* every state the server can be in, two requests that agree on timestamp and
\* sign are both answered 404 or both not, whatever their route, UUID, TYP,
\* Interval, target and body; and a pair signed with the server's secret is
\* let through on every request, however many it has been let through on
\* before, as long as the clock is at most signTTL past the timestamp.
C38_PreCheckByHeadersOnly ==
  \A nw \in Clocks :
    LET Asked == {r \in ProtectedReqs(AuthHeaders) :
                    Conforms(r) /\ (r.route = "/connect" => minted < MaxTunnels)}
        Rejected == {r \in Asked : Route(r, nw).resp.status = HeadNotFound}
    IN /\ \A r1 \in Rejected : \A r2 \in Asked \ Rejected :
              r1.timestamp # r2.timestamp \/ r1.sign # r2.sign
       /\ \A r \in Asked :
              (~BadTimestamp(r) /\ ~BadSign(r) /\ TimestampAge(r, nw) <= signTTL)
                 => r \notin Rejected

\* the pair signed at time 0 has been let through on two /connect requests
\* and once more on the last request
C38_Witness ==
  /\ minted = 2
  /\ reply.status = HeadOK /\ reply.parsed /\ reply.signed
  /\ reply.age = signTTL

\* ----------------------------------------------------------------- C39
\* C39: the freshness check looks one way only.  A request whose timestamp
\* is signed with the server's secret and lies ahead of the server's clock,
\* by more than signTTL as well, passes the pre-check; the same pair passes
\* as long as the clock is at most signTTL past the timestamp, and is
\* answered 404 once it is further past.
C39_FutureTimestampPasses ==
  /\ (reply.parsed /\ reply.signed) => (reply.status = HeadNotFound <=> reply.age > signTTL)
  /\ \A nw \in Clocks \cup {2 * signTTL + 1, 3 * signTTL + 1} :
      \A r \in ProtectedReqs({genSign(2 * signTTL + 1, ServerSecret)}) :
        (Conforms(r) /\ (r.route = "/connect" => minted < MaxTunnels))
          => (Route(r, nw).resp.status = HeadNotFound <=> nw > 3 * signTTL + 1)

\* a request signed signTTL + 1 seconds ahead of the clock has been let through
C39_Witness ==
  /\ reply.parsed /\ reply.signed
  /\ reply.age = 0 - (signTTL + 1)
  /\ reply.status = HeadOK

\* ------------------------------------------------- the mutexes of the server
\* The handlers of the server step by step, as far as the registry mutex
\* s.mu and the mutex pc.mu of each tunnel are concerned.  MaxHandlers
\* goroutines, numbered from 1, serve one request after another; the
\* lifecycle goroutine that /connect starts for tunnel i has the number
\* MaxHandlers + i.
\* Here reply holds the two kinds of mutex (0: free, else the goroutine that
\* holds it) and, for each goroutine, the request it serves and the call it
\* is about to make or is blocked in: op "Lock" before a Lock() that has not
\* returned, op "Unlock" inside the critical section, site the place of the
\* section in the code, ok what the section read.
MaxHandlers == 2

InitLock ==
  /\ proxyMap = {}
  /\ conns = [i \in Ids |-> NilConn]
  /\ minted = 0
  /\ pull = [i \in Ids |-> FALSE]
  /\ push = [i \in Ids |-> NoPush]
  /\ down = [i \in Ids |-> <<>>]
  /\ closedFor = [i \in Ids |-> -1]
  /\ closedBy = [i \in Ids |-> "none"]
  /\ heartGap = [i \in Ids |-> 0]
  /\ onTime = [i \in Ids |-> 0]
  /\ c = NilClient
  /\ reply = [mu |-> 0, pcmu |-> [i \in Ids |-> 0],
              g |-> [h \in 1 .. MaxHandlers + MaxTunnels |->
                       [route |-> "", id |-> 0, op |-> "idle", site |-> "", ok |-> FALSE]]]

\* a request that passed before enters its handler: /connect dials, /pull
\* and /push go to s.mu.Lock() for the lookup of the UUID header.  The TYP
\* header of a /push is drawn where the handler reads it, after IsClosed
Handle(g) ==
  /\ g <= MaxHandlers
  /\ reply.g[g].op = "idle"
  /\ \E route \in {"/connect", "/pull", "/push"}, uuid \in Ids :
       /\ route = "/connect" => uuid = 1
       /\ reply' = [reply EXCEPT !.g[g] =
                      IF route = "/connect"
                      THEN [route |-> route, id |-> 0, op |-> "dial", site |-> "", ok |-> FALSE]
                      ELSE [route |-> route, id |-> uuid, op |-> "Lock", site |-> "lookup", ok |-> FALSE]]
  /\ UNCHANGED <<server, observers, c>>

\* variant: the handler leaves the registry locked after the lookup
Unlock_deferred(g) ==
  LET h == reply.g[g]
  IN /\ h.op = "Unlock"
     /\ h.site = "lookup"
     /\ h.ok
     /\ reply' = [reply EXCEPT !.g[g] = [h EXCEPT !.op = "Lock", !.site = "IsClosed", !.ok = FALSE]]
     /\ UNCHANGED <<server, observers, c>>

\* Lock() returns: the mutex was free and is now held by g.  The section of
\* the registry that follows looks up, inserts or deletes the id; the section
\* of the tunnel reads hasClosed (IsClosed) or sets it (Close)
Lock(g) ==
  LET h == reply.g[g]
      registry == h.site \in {"lookup", "insert", "delete"}
  IN /\ h.op = "Lock"
     /\ IF registry THEN reply.mu = 0 ELSE reply.pcmu[h.id] = 0
     /\ reply' = [reply EXCEPT !.mu = IF registry THEN g ELSE @,
                               !.pcmu = IF registry THEN @ ELSE [@ EXCEPT ![h.id] = g],
                               !.g[g].op = "Unlock",
                               !.g[g].ok = CASE h.site = "lookup" -> h.id \in proxyMap
                                             [] h.site \in {"IsClosed", "errIsClosed"} -> IsClosed(conns[h.id])
                                             [] OTHER -> @]
     /\ proxyMap' = CASE h.site = "insert" -> proxyMap \cup {h.id}
                      [] h.site = "delete" -> proxyMap \ {h.id}
                      [] OTHER -> proxyMap
     /\ conns' = CASE h.site = "Close" -> [conns EXCEPT ![h.id].hasClosed = TRUE]
                   [] h.site = "delete" -> [conns EXCEPT ![h.id].life = "done"]
                   [] OTHER -> conns
     /\ UNCHANGED <<minted, pull, push, down, observers, c>>

\* Unlock(), and the handler up to its next blocking call: after the lookup
\* "uuid don't exist" or IsClosed; after IsClosed "remote conn is closed",
\* Heart, Close or the copy; after the insert the start of the lifecycle
\* goroutine and the answer; after the flag of Close the signal to Do; after
\* the delete the end of the lifecycle goroutine
Unlock(g) ==
  LET h == reply.g[g]
      registry == h.site \in {"lookup", "insert", "delete"}
      return == [route |-> "", id |-> 0, op |-> "idle", site |-> "", ok |-> FALSE]
  IN /\ h.op = "Unlock"
     /\ IF registry THEN reply.mu = g ELSE reply.pcmu[h.id] = g
     /\ \E typ \in {"heart", "quit", "data"} :
          LET open == h.site = "IsClosed" /\ ~h.ok
              heart == open /\ h.route = "/push" /\ typ = "heart"
              quit == open /\ h.route = "/push" /\ typ = "quit"
          IN /\ reply' = [reply EXCEPT
                  !.mu = IF registry THEN 0 ELSE @,
                  !.pcmu = IF registry THEN @ ELSE [@ EXCEPT ![h.id] = 0],
                  !.g[MaxHandlers + h.id] = IF h.site = "insert" THEN [h EXCEPT !.op = "Do", !.site = ""] ELSE @,
                  !.g[g] = CASE h.site = "lookup" /\ h.ok -> [h EXCEPT !.op = "Lock", !.site = "IsClosed", !.ok = FALSE]
                             [] quit -> [h EXCEPT !.op = "Lock", !.site = "Close"]
                             [] open /\ ~heart /\ ~quit -> [h EXCEPT !.op = "io", !.site = ""]
                             [] h.site = "errIsClosed" -> [h EXCEPT !.op = "Lock", !.site = "Close", !.ok = FALSE]
                             [] OTHER -> return]
             /\ conns' = CASE h.site = "Close" -> [conns EXCEPT ![h.id] = Close(@)]
                           [] h.site = "insert" -> [conns EXCEPT ![h.id].life = "loop"]
                           [] heart -> [conns EXCEPT ![h.id] = Heart(@)]
                           [] OTHER -> conns
     /\ UNCHANGED <<proxyMap, minted, pull, push, down, observers, c>>

\* a call on a socket returns, after any time or never: net.DialTimeout with
\* the socket of a new tunnel or an error; pc.remote.Read and w.Write of
\* /pull and io.Copy of /push with success, with the end of the stream or
\* with another error
SocketReturn(g) ==
  LET h == reply.g[g]
      return == [route |-> "", id |-> 0, op |-> "idle", site |-> "", ok |-> FALSE]
  IN \/ /\ h.op = "dial"
        /\ \/ /\ minted < MaxTunnels
              /\ minted' = minted + 1
              /\ conns' = [conns EXCEPT ![minted + 1] = newProxyConn]
              /\ reply' = [reply EXCEPT !.g[g] = [h EXCEPT !.id = minted + 1, !.op = "Lock", !.site = "insert"]]
           \/ /\ reply' = [reply EXCEPT !.g[g] = return]
              /\ UNCHANGED <<minted, conns>>
        /\ UNCHANGED <<proxyMap, pull, push, down, observers, c>>
     \/ /\ h.op = "io"
        /\ \E res \in {"ok", "EOF", "err"} :
             /\ res = "ok" => conns[h.id].remote = "open"
             /\ res = "EOF" => h.route = "/pull"
             /\ reply' = [reply EXCEPT !.g[g] =
                            CASE res = "ok" -> return
                              [] res = "EOF" -> [h EXCEPT !.op = "Lock", !.site = "Close"]
                              [] OTHER -> [h EXCEPT !.op = "Lock", !.site = "errIsClosed"]]
        /\ UNCHANGED <<server, observers, c>>

\* the lifecycle goroutine: pc.Do() reaches its select, returns on the
\* timeout, or has returned on the signal of Close; then it goes to
\* s.mu.Lock() for the delete
DoRun(g) ==
  LET h == reply.g[g]
  IN /\ h.op = "Do"
     /\ \/ /\ conns[h.id].life = "loop"
           /\ conns' = [conns EXCEPT ![h.id].life = "select"]
           /\ UNCHANGED reply
        \/ /\ conns[h.id].life = "select"
           /\ conns' = [conns EXCEPT ![h.id] = DoReturn(@)]
           /\ reply' = [reply EXCEPT !.g[g] = [h EXCEPT !.op = "Lock", !.site = "delete"]]
        \/ /\ conns[h.id].life = "exited"
           /\ reply' = [reply EXCEPT !.g[g] = [h EXCEPT !.op = "Lock", !.site = "delete"]]
           /\ UNCHANGED conns
     /\ UNCHANGED <<proxyMap, minted, pull, push, down, observers, c>>

NextLock ==
  \/ \E g \in 1 .. MaxHandlers : Handle(g)
  \/ \E g \in 1 .. MaxHandlers + MaxTunnels : Lock(g)
  \/ \E g \in 1 .. MaxHandlers + MaxTunnels : Unlock(g)
  \/ \E g \in 1 .. MaxHandlers : SocketReturn(g)
  \/ \E i \in Ids : DoRun(MaxHandlers + i)

\* a goroutine inside a critical section goes on to its Unlock, and a
\* goroutine that keeps finding the mutex free at some moments gets it
\* (sync.Mutex hands a mutex over to a waiter that has waited long); calls on
\* sockets and the select of Do may block for ever
FairLock ==
  /\ InitLock
  /\ [][NextLock]_vars
  /\ \A g \in 1 .. MaxHandlers + MaxTunnels : SF_vars(Lock(g)) /\ WF_vars(Unlock(g))

\* ----------------------------------------------------------------- C40
\* C40: a goroutine holds the registry mutex only inside the lookup, the
\* insert or the delete, never while it dials, reads or writes a socket,
\* waits in Do or asks for the mutex of a tunnel; no goroutine holds the
\* registry mutex and the mutex of a tunnel together; every goroutine that
\* asks for a mutex gets it, whatever calls of other goroutines stay blocked
\* on their sockets.
C40_RegistryLockDiscipline ==
  /\ [](\A g \in 1 .. MaxHandlers + MaxTunnels :
          /\ reply.mu = g => /\ reply.g[g].op = "Unlock"
                             /\ reply.g[g].site \in {"lookup", "insert", "delete"}
          /\ \A i \in Ids : ~(reply.mu = g /\ reply.pcmu[i] = g)
          /\ reply.g[g].op \in {"dial", "io", "Do", "idle"}
               => (reply.mu # g /\ \A i \in Ids : reply.pcmu[i] # g))
  /\ \A g \in 1 .. MaxHandlers + MaxTunnels :
       [](reply.g[g].op = "Lock" => <>(reply.g[g].op = "Unlock"))

\* one handler is blocked in a call on the socket of tunnel 1, the other is
\* inside the lookup of the same tunnel, and the lifecycle goroutine of
\* tunnel 2 waits for the registry
C40_Witness ==
  /\ reply.g[1].op = "io" /\ reply.g[1].id = 1
  /\ reply.mu = 2 /\ reply.g[2].site = "lookup" /\ reply.g[2].id = 1
  /\ reply.g[MaxHandlers + 2].op = "Lock" /\ reply.g[MaxHandlers + 2].site = "delete"
====
